---- MODULE Spec2Model ----
(***************************************************************************)
(* State-machine model of the MLB assistant: the LangGraph pipelines of    *)
(* app/graph.py, app/agent.py and the route-based nodes of app/nodes.py,   *)
(* the grounded-answer generator with its retry loop, and the document,    *)
(* player-search and player-statistics tools of app/agent_tools.py.        *)
(*                                                                         *)
(* Python values are encoded as follows.  An optional value (None, or a    *)
(* dictionary key that is absent and read with .get) is the empty tuple,   *)
(* a present value x is the one-element tuple <<x>>.  A text that the code *)
(* inspects character by character is a tuple of one-character strings.    *)
(* Message contents are records with a "kind" field.                       *)
(***************************************************************************)
EXTENDS Integers, Sequences, FiniteSets, TLC

VARIABLES
    variant,         \* which compiled graph or tool serves the request
    input,           \* the messages the caller passed in; never written
    tool_arg,        \* the argument of a tool call; never written
    pc,              \* node about to run; "END" or "RAISED" when finished
    classifier_reply, \* what the model replied to the router / classifier
    branch,          \* label returned by the conditional edge's function
    messages,        \* State["messages"]
    route,           \* State["route"] (app/state.py)
    do_rag,          \* State["do_rag"] (app/graph.py)
    do_player,       \* State["do_player"] (app/graph.py)
    extracted_name,  \* State["extracted_name"]
    extracted_team,  \* State["extracted_team"]
    player_id,       \* State["player_id"]
    stats,           \* State["stats"]
    extractor_reply, \* what the model replied to extract_player_node
    searched,        \* names passed to search_player, in order
    directory_reply, \* what /api/v1/people/search answered, if it was called
    stats_reply,     \* what /api/v1/people/{id} answered, if it was called
    attempt,         \* loop variable of the generator's retry loop
    outcomes,        \* provider outcomes met by the generator, in order
    waits,           \* delays passed to time.sleep, in order
    queries,         \* first argument of each generate_content call, in order
    twin,            \* the other generator run on the same provider outcomes
    calls,           \* external calls issued so far, in order
    trace,           \* nodes entered so far (the log_start events)
    produced,        \* assistant messages returned by the nodes, in order
    exc,             \* exception that escaped the pipeline, if any
    result,          \* value returned by a tool call, if any
    raw_contexts,    \* _build_citations: its argument
    ctx_index,       \* _build_citations: contexts the loop has handled
    citation_map,    \* _build_citations: the URIs that have a tag, in tag order
    tagged_snippets, \* _build_citations: (tag, snippet) pairs
    sources,         \* _build_citations: (tag, uri) pairs
    citations,       \* _build_citations: the returned pair, if it returned
    search_output,   \* VertexRAGClient.search: the returned text, if it returned
    PLANNER_CACHE,   \* planner._PLANNER_CACHE
    planner_pc,      \* get_planner_agent: each caller's position
    agent,           \* get_planner_agent: each caller's local `agent`
    constructions,   \* outcomes of the agent constructions, in order
    returns,         \* what the finished get_planner_agent calls gave, in order
    concurrent,      \* whether calls of get_planner_agent may overlap
    query_text,      \* _retrieve: its argument
    retrieve_pc,     \* _retrieve: its position
    retrieve_attempt, \* _retrieve: the loop variable `attempt`
    last_exc,        \* _retrieve: the local `last_exc`
    retrievals,      \* _retrieve: what each retrieval_query call met, in order
    retrieve_waits,  \* _retrieve: delays passed to time.sleep, in order
    retrieved        \* _retrieve: what it returned or raised, if it ended

vars == <<variant, input, tool_arg, pc, classifier_reply, branch, messages, route,
          do_rag, do_player, extracted_name, extracted_team, player_id, stats,
          extractor_reply, searched, directory_reply, stats_reply, attempt,
          outcomes, waits, queries, twin, calls,
          trace, produced, exc, result, raw_contexts, ctx_index, citation_map,
          tagged_snippets, sources, citations, search_output, PLANNER_CACHE,
          planner_pc, agent, constructions, returns, concurrent, query_text,
          retrieve_pc, retrieve_attempt, last_exc, retrievals, retrieve_waits,
          retrieved>>

stateKeys == <<route, do_rag, do_player, extracted_name, extracted_team,
               player_id, stats>>

genVars == <<attempt, outcomes, waits, queries, twin>>

replies == <<extractor_reply, searched, directory_reply, stats_reply>>

\* the variables of the pipelines and tools
pipelineVars == <<variant, input, tool_arg, pc, classifier_reply, branch, messages,
                  stateKeys, replies, genVars, calls, trace, produced, exc, result>>

\* the variables of VertexRAGClient._build_citations
citationVars == <<raw_contexts, ctx_index, citation_map, tagged_snippets, sources,
                  citations, search_output>>

\* the variables of planner.get_planner_agent
plannerVars == <<PLANNER_CACHE, planner_pc, agent, constructions, returns,
                 concurrent>>

\* the variables of VertexRAGClient._retrieve
retrieveVars == <<query_text, retrieve_pc, retrieve_attempt, last_exc, retrievals,
                  retrieve_waits, retrieved>>

libVars == <<citationVars, plannerVars, retrieveVars>>

-----------------------------------------------------------------------------
(* Bounds of the model *)

\* number of messages already in the conversation before the user's question
MaxHistory == 1

-----------------------------------------------------------------------------
(* Optional values and texts *)

None == <<>>
Some(x) == <<x>>
Get(o, default) == IF o = None THEN default ELSE o[1]

SetMin(S) == CHOOSE x \in S : \A y \in S : x <= y
SetMax(S) == CHOOSE x \in S : \A y \in S : x >= y

\* str.lower() on one character
LowerChar(c) ==
    CASE c = "A" -> "a"
      [] c = "J" -> "j"
      [] c = "N" -> "n"
      [] OTHER -> c

\* str.lower()
lower(s) == [i \in 1..Len(s) |-> LowerChar(s[i])]

\* str.strip()
strip(s) ==
    LET keep == {i \in 1..Len(s) : s[i] # " "}
    IN  IF keep = {} THEN <<>> ELSE SubSeq(s, SetMin(keep), SetMax(keep))

\* needle in hay
contains(needle, hay) ==
    \E i \in 0..(Len(hay) - Len(needle)) :
        SubSeq(hay, i + 1, i + Len(needle)) = needle

IsUpper(c) == c \in {"A", "J", "N"}
IsLower(c) == c \in {"a", "e", "h", "i", "j", "l", "n", "o"}
IsWord(c) == IsUpper(c) \/ IsLower(c)

\* [A-Z][a-z]+ matched greedily from position i: the position of its last
\* character, or 0 when the pattern does not match at i
CapWordEnd(s, i) ==
    IF i > Len(s) \/ i + 1 > Len(s) THEN 0
    ELSE IF ~IsUpper(s[i]) \/ ~IsLower(s[i + 1]) THEN 0
    ELSE SetMax({j \in (i + 1)..Len(s) : \A k \in (i + 1)..j : IsLower(s[k])})

\* \s+ matched greedily from position i: the position after the run, or 0
SpaceRunEnd(s, i) ==
    IF i > Len(s) THEN 0
    ELSE IF s[i] # " " THEN 0
    ELSE SetMax({j \in i..Len(s) : \A k \in i..j : s[k] = " "}) + 1

\* the match of \b([A-Z][a-z]+\s+[A-Z][a-z]+)\b starting at position i, as
\* <<first, last>>, or <<>> when there is none
MatchAt(s, i) ==
    LET e1 == CapWordEnd(s, i)
        w2 == IF e1 = 0 THEN 0 ELSE SpaceRunEnd(s, e1 + 1)
        e2 == IF w2 = 0 THEN 0 ELSE CapWordEnd(s, w2)
    IN  IF e2 = 0 THEN <<>>
        ELSE IF i > 1 /\ IsWord(s[i - 1]) THEN <<>>
        ELSE IF e2 < Len(s) /\ IsWord(s[e2 + 1]) THEN <<>>
        ELSE <<i, e2>>

\* re.search(r"\b([A-Z][a-z]+\s+[A-Z][a-z]+)\b", q): group 1 of the leftmost
\* match as an optional text
re_search_name(q) ==
    LET starts == {i \in 1..Len(q) : MatchAt(q, i) # <<>>}
    IN  IF starts = {} THEN None
        ELSE LET m == MatchAt(q, SetMin(starts))
             IN  Some(SubSeq(q, m[1], m[2]))

-----------------------------------------------------------------------------
(* Fixed texts of the program *)

HelloMessage == "I'm an MLB assistant agent with two main capabilities: ..."
BusyMessage == "The service is currently busy. Please try again in a few moments."
NotFoundMessage == "I could not find any information on that topic."
UnexpectedMessage == "An unexpected error occurred after multiple retries."

Fixed(text) == [kind |-> "fixed", message |-> text]

AIMessage(content) == [role |-> "assistant", content |-> content]
HumanMessage(q) == [role |-> "user", content |-> [kind |-> "query", text |-> q]]

-----------------------------------------------------------------------------
(* Inputs: the user's question and what the collaborators can reply *)

QHi == <<"h", "i">>
QAlJo == <<"h", "i", " ", "A", "l", " ", "J", "o">>
QJoAlJon == <<"J", "o", " ", "A", "l", " ", "J", "o", "n">>
AlJo == <<"A", "l", " ", "J", "o">>
AlJon == <<"A", "l", " ", "J", "o", "n">>
AlJoPadded == <<" ", "A", "l", " ", "J", "o", " ">>
Jo == <<"J", "o">>
On == <<"o", "n">>
NoneText == <<"N", "o", "n", "e">>

Queries == {QHi, QAlJo, QJoAlJon}

PriorMessages == {HumanMessage(QHi), AIMessage(Fixed(HelloMessage))}
Histories == UNION {[1..n -> PriorMessages] : n \in 0..MaxHistory}

\* the closed set of routes, and labels a classifier can emit besides them;
\* "null" stands for a JSON null
RouteLabels == {"PLAYER_STATS", "DOCUMENT_QA", "HELLO", "MULTI_DOMAIN",
                "PLAYER_STATS_PATH", "null"}

NameValues == {None, Some(<<>>), Some(AlJo), Some(On), Some(NoneText)}
TeamValues == {None, Some("Yankees")}

\* the "entities" member of the router's JSON object
EntityShapes ==
    {[tag |-> "missing"], [tag |-> "null"], [tag |-> "empty"], [tag |-> "text"]}
    \cup {[tag |-> "object", name |-> n, team |-> t] :
            n \in NameValues, t \in TeamValues}

\* what llm_langchain.invoke gives route_query_node: the call raises, the
\* content is no JSON, is JSON but no object, or is an object
RouterReplies ==
    {[kind |-> "raise"], [kind |-> "text"], [kind |-> "json_value"]}
    \cup {[kind |-> "object", route |-> r, entities |-> e] :
            r \in {None} \cup {Some(l) : l \in RouteLabels}, e \in EntityShapes}

\* what llm_langchain.invoke gives classify_node
ClassifierReplies ==
    {[kind |-> "raise"], [kind |-> "text"], [kind |-> "json_value"]}
    \cup {[kind |-> "object", category |-> c] :
            c \in {None} \cup {Some(l) : l \in RouteLabels}}

\* what the model gives extract_player_node
ExtractorReplies ==
    {[kind |-> "raise"], [kind |-> "text"], [kind |-> "json_value"]}
    \cup {[kind |-> "object", name |-> n, team |-> t] :
            n \in NameValues, t \in TeamValues}

\* what the model gives the answer composer
AnswerReplies == {"raise", "content"}

\* /api/v1/people/search: a transport failure, or a list of people
Person(id, fullName, active) == [id |-> id, fullName |-> fullName, active |-> active]
PeopleLists ==
    { <<>>,
      <<Person(7, Some(AlJo), "true")>>,
      <<Person(0, Some(AlJo), "true")>>,
      <<Person(8, Some(AlJon), "true"), Person(7, Some(AlJo), "true")>>,
      <<Person(7, Some(AlJo), "true"), Person(3, Some(AlJo), "true")>>,
      <<Person(9, Some(AlJo), "false")>>,
      <<Person(9, Some(AlJo), "missing"), Person(8, Some(AlJon), "true")>>,
      <<Person(5, Some(Jo), "true"), Person(8, Some(AlJon), "true")>>,
      <<Person(5, Some(Jo), "true"), Person(6, None, "true")>>,
      <<Person(6, None, "true"), Person(8, Some(AlJon), "true")>>,
      <<Person(6, None, "true"), Person(4, Some(NoneText), "true")>> }
DirectoryReplies ==
    {[kind |-> "error"]} \cup {[kind |-> "people", people |-> l] : l \in PeopleLists}

\* /api/v1/people/{id}: a transport failure, no such player, or a player with
\* stat groups, each a list of splits
Stat(avg, ops, hr, rbi) == [avg |-> avg, ops |-> ops, homeRuns |-> hr, rbi |-> rbi]
StatFull == Stat(Some(".310"), Some("1.020"), Some(58), Some(144))
StatBare == Stat(None, None, None, None)
GroupLists ==
    { <<>>, << <<>> >>, << <<StatFull>> >>, << <<StatBare>> >>,
      << <<>>, <<StatFull, StatBare>> >>,
      << <<StatFull>>, <<>> >>,
      << <<StatFull>>, <<StatBare>> >> }
StatsReplies ==
    {[kind |-> "error"], [kind |-> "no_people"]}
    \cup {[kind |-> "player", groups |-> g] : g \in GroupLists}

\* the arguments the planning agent passes to search_for_player and to
\* get_player_statistics
ToolNames == {AlJo, AlJoPadded, Jo, On, NoneText}
ToolIds == {0, 7}

\* llm_native_grounding.generate_content: a rate-limit error, an exception of
\* another class, or a response
GroundedResponses ==
    {r \in [kind : {"response"}, candidates : BOOLEAN, metadata : BOOLEAN,
            supports : BOOLEAN, parts : BOOLEAN, text : BOOLEAN,
            bibliography : BOOLEAN] :
        /\ r.metadata => r.candidates
        /\ r.parts => r.candidates
        /\ r.supports => r.metadata
        /\ r.bibliography => (r.metadata /\ r.parts)}
GroundedOutcomes ==
    {[kind |-> "ResourceExhausted"], [kind |-> "Exception"]} \cup GroundedResponses

-----------------------------------------------------------------------------
(* Program constants *)

max_retries == 3
base_delay == 5

-----------------------------------------------------------------------------
(* The nodes' computations *)

Last(seq) == seq[Len(seq)]

\* last = state["messages"][-1]; the text of its content
last_query(msgs) == Last(msgs).content.text

\* a node's return value {"messages": [AIMessage(...)]} written to a
\* "messages" key that is declared without a reducer
update_messages(old, new) == new

\* nodes.route_query_node: the returned dictionary for one model reply
route_query_node(reply) ==
    IF reply.kind # "object"
    THEN \* the call raised, or json.loads / data.get raised
         [route |-> "DOCUMENT_QA", extracted_name |-> None, extracted_team |-> None]
    ELSE IF reply.entities.tag = "text"
    THEN \* entities.get raised AttributeError
         [route |-> "DOCUMENT_QA", extracted_name |-> None, extracted_team |-> None]
    ELSE LET r == Get(reply.route, "HELLO")
             entities == reply.entities
             name == IF entities.tag = "object" THEN entities.name ELSE None
             team == IF entities.tag = "object" THEN entities.team ELSE None
         IN  IF r \notin {"PLAYER_STATS", "DOCUMENT_QA"}
             THEN [route |-> "HELLO", extracted_name |-> None, extracted_team |-> None]
             ELSE [route |-> r, extracted_name |-> name, extracted_team |-> team]

\* decide_route without its membership test: the route is passed on as it is
decide_route_unchecked(r) == Get(r, "HELLO")

\* nodes.decide_route on the state's optional "route" key
decide_route(r) ==
    LET v == Get(r, "HELLO")
    IN  IF v \notin {"PLAYER_STATS", "DOCUMENT_QA", "HELLO"} THEN "HELLO" ELSE v

\* graph.classify_node: the category the node settles on
classify_category(reply) ==
    IF reply.kind # "object" THEN "DOCUMENT_QA"
    ELSE Get(reply.category, "DOCUMENT_QA")

\* graph.classify_node: the returned dictionary
classify_node(reply) ==
    LET category == classify_category(reply)
    IN  [do_player |-> (category = "PLAYER_STATS"), do_rag |-> (category = "DOCUMENT_QA")]

\* graph.route_after_classification
route_after_classification(rag, player) ==
    IF rag THEN "rag_path"
    ELSE IF player THEN "player_path"
    ELSE "END"

\* graph.extract_player_node / agent.extract_player_node: the returned
\* dictionary, or the exception that escapes
extract_player_node(reply) ==
    CASE reply.kind = "raise" ->
            [raised |-> TRUE, exc |-> "Exception"]
      [] reply.kind = "text" ->
            [raised |-> FALSE, extracted_name |-> None, extracted_team |-> None]
      [] reply.kind = "json_value" ->
            [raised |-> TRUE, exc |-> "AttributeError"]
      [] OTHER ->
            [raised |-> FALSE, extracted_name |-> reply.name,
             extracted_team |-> reply.team]

\* search_player that never tests the active flag
search_player_all(reply, only_active) ==
    IF reply.kind = "error" THEN [error |-> TRUE]
    ELSE LET players == [i \in 1..Len(reply.people) |->
                            [id |-> reply.people[i].id,
                             full_name |-> reply.people[i].fullName]]
         IN  [error |-> FALSE, found |-> Len(players), players |-> players]

\* mlb_tools.search_player
search_player(reply, only_active) ==
    IF reply.kind = "error" THEN [error |-> TRUE]
    ELSE LET kept == SelectSeq(reply.people,
                        LAMBDA person : ~(only_active /\ person.active # "true"))
             players == [i \in 1..Len(kept) |->
                            [id |-> kept[i].id, full_name |-> kept[i].fullName]]
         IN  [error |-> FALSE, found |-> Len(players), players |-> players]

\* str(p.get("full_name", ""))
full_name_str(p) ==
    IF p.full_name = None THEN <<"N", "o", "n", "e">> ELSE p.full_name[1]

\* the choice loops without their "break": the last match wins
choose_player_last_match(name, players) ==
    LET name_lc == strip(lower(name))
        exact == {i \in 1..Len(players) :
                    strip(lower(full_name_str(players[i]))) = name_lc}
        partial == {i \in 1..Len(players) :
                    contains(name_lc, lower(full_name_str(players[i])))}
    IN  IF exact # {} THEN players[SetMax(exact)]
        ELSE IF partial # {} THEN players[SetMax(partial)]
        ELSE players[1]

\* the candidate chosen among a non-empty list: exact match, then substring
\* match, then the first record
choose_player(name, players) ==
    LET name_lc == strip(lower(name))
        exact == {i \in 1..Len(players) :
                    strip(lower(full_name_str(players[i]))) = name_lc}
        partial == {i \in 1..Len(players) :
                    contains(name_lc, lower(full_name_str(players[i])))}
    IN  IF exact # {} THEN players[SetMin(exact)]
        ELSE IF partial # {} THEN players[SetMin(partial)]
        ELSE players[1]

\* player_search_node without the regular-expression step
search_term_no_regex(name, q) ==
    IF name # None /\ name # Some(<<>>) THEN name[1] ELSE q

\* the search term of player_search_node
search_term(name, q) ==
    IF name # None /\ name # Some(<<>>) THEN name[1]
    ELSE Get(re_search_name(q), q)

\* nodes.player_search_node: the "player_id" it returns
player_search_node(name, q, reply) ==
    LET term == search_term(name, q)
        res == search_player(reply, TRUE)
        players == IF res.error THEN <<>> ELSE res.players
    IN  IF players = <<>> THEN None
        ELSE Some(choose_player(term, players).id)

\* find_player_id without its "if not players: return None"
find_player_id_unguarded(player_name, reply) ==
    LET res == search_player(reply, TRUE)
        players == IF res.error THEN <<>> ELSE res.players
        target == strip(lower(player_name))
        exact == {i \in 1..Len(players) :
                    strip(lower(full_name_str(players[i]))) = target}
        partial == {i \in 1..Len(players) :
                    contains(target, lower(full_name_str(players[i])))}
    IN  IF exact # {} THEN [raised |-> FALSE, pid |-> Some(players[SetMin(exact)].id)]
        ELSE IF partial # {}
        THEN [raised |-> FALSE, pid |-> Some(players[SetMin(partial)].id)]
        ELSE IF players = <<>> THEN [raised |-> TRUE, exc |-> "IndexError"]
        ELSE [raised |-> FALSE, pid |-> Some(players[1].id)]

\* logic.find_player_id: the identifier it returns, None when nobody is found
find_player_id(player_name, reply) ==
    LET res == search_player(reply, TRUE)
        players == IF res.error THEN <<>> ELSE res.players
        target == strip(lower(player_name))
        exact == {i \in 1..Len(players) :
                    strip(lower(full_name_str(players[i]))) = target}
        partial == {i \in 1..Len(players) :
                    contains(target, lower(full_name_str(players[i])))}
    IN  IF players = <<>> THEN [raised |-> FALSE, pid |-> None]
        ELSE IF exact # {} THEN [raised |-> FALSE, pid |-> Some(players[SetMin(exact)].id)]
        ELSE IF partial # {}
        THEN [raised |-> FALSE, pid |-> Some(players[SetMin(partial)].id)]
        ELSE [raised |-> FALSE, pid |-> Some(players[1].id)]

\* agent_tools.search_for_player: pid if pid is not None else "not_found"
search_for_player(pid) ==
    IF pid # None THEN [kind |-> "player_id", id |-> pid[1]]
    ELSE [kind |-> "not_found"]

\* the "hitting_season" entry built from the first split of a stat group
hitting_season(stat) ==
    [avg |-> Get(stat.avg, ".000"), ops |-> Get(stat.ops, ".000"),
     home_runs |-> Get(stat.homeRuns, 0), rbi |-> Get(stat.rbi, 0)]

\* the loop of get_player_stats over the stat groups
RECURSIVE stat_groups_loop(_, _)
stat_groups_loop(groups, acc) ==
    IF groups = <<>> THEN acc
    ELSE LET splits == Head(groups)
         IN  stat_groups_loop(Tail(groups),
                IF splits = <<>> THEN acc ELSE Some(hitting_season(splits[1])))

\* get_player_stats filling in the default metrics when no player is found
get_player_stats_defaulting(pid, reply) ==
    CASE reply.kind = "error" -> [tag |-> "error", error |-> "transport"]
      [] reply.kind = "no_people" ->
            [tag |-> "record", player_id |-> pid,
             hitting_season |-> Some(hitting_season(StatBare))]
      [] OTHER -> [tag |-> "record", player_id |-> pid,
                   hitting_season |-> stat_groups_loop(reply.groups, None)]

\* mlb_tools.get_player_stats
get_player_stats(pid, reply) ==
    CASE reply.kind = "error" -> [tag |-> "error", error |-> "transport"]
      [] reply.kind = "no_people" -> [tag |-> "error", error |-> "Player not found"]
      [] OTHER -> [tag |-> "record", player_id |-> pid,
                   hitting_season |-> stat_groups_loop(reply.groups, None)]

\* logic.fetch_player_stats: get_player_stats raises on none of the replies,
\* so the handler that returns None never runs
fetch_player_stats(pid, reply) == Some(get_player_stats(pid, reply))

\* agent_tools.get_player_statistics: stats if stats is not None else "no_stats"
get_player_statistics(st) ==
    IF st # None THEN st[1] ELSE [tag |-> "no_stats"]

\* not pid
no_player_id(pid) == pid = None \/ pid = Some(0)

\* the hitting data the answer composer reads from state["stats"]
hitting_of(st) ==
    IF st = None THEN None
    ELSE IF st[1].tag # "record" THEN None
    ELSE st[1].hitting_season

\* nodes.chat_player / graph.chat_player: the prompt sent to the model
chat_player_prompt(q, st) ==
    LET hitting == hitting_of(st)
    IN  IF hitting # None
        THEN [kind |-> "stats", avg |-> hitting[1].avg, hr |-> hitting[1].home_runs,
              ops |-> hitting[1].ops, rbi |-> hitting[1].rbi, question |-> q]
        ELSE [kind |-> "raw", question |-> q]

\* logic.generate_player_stats_answer: the prompt sent to the model
generate_player_stats_answer(query, st) ==
    LET hitting == hitting_of(st)
    IN  IF hitting # None
        THEN [kind |-> "stats", avg |-> hitting[1].avg, hr |-> hitting[1].home_runs,
              ops |-> hitting[1].ops, rbi |-> hitting[1].rbi, question |-> query]
        ELSE [kind |-> "raw", question |-> query]

\* agent.chat: the prompt sent to the model (no snippets in the state)
chat_prompt(q, st) ==
    LET hitting == hitting_of(st)
    IN  IF hitting # None
        THEN [kind |-> "stats", avg |-> hitting[1].avg, hr |-> hitting[1].home_runs,
              ops |-> hitting[1].ops, question |-> q]
        ELSE [kind |-> "raw", question |-> q]

\* the generator handing generate_content a lower-cased copy of the query
grounded_query_lowered(msgs) == lower(last_query(msgs))

\* the generator's `query`: the content of the last message (the tool's
\* argument), handed to generate_content as it is
grounded_query(msgs) == last_query(msgs)

\* response.text or "I could not find any information on that topic."
raw_text(resp) ==
    IF resp.text THEN [kind |-> "raw_text"] ELSE Fixed(NotFoundMessage)

\* rag.add_inline_citations_and_references, then the "Sources" section
cited_answer(resp) == [kind |-> "cited", sources |-> resp.bibliography]

\* nodes.generate_rag_answer / graph.generate_rag_answer: what one response
\* leads to
rag_answer_of(resp) ==
    IF ~resp.candidates THEN [raised |-> TRUE, exc |-> "IndexError"]
    ELSE IF ~resp.metadata THEN [raised |-> FALSE, content |-> raw_text(resp)]
    ELSE IF ~resp.parts THEN [raised |-> TRUE, exc |-> "IndexError"]
    ELSE [raised |-> FALSE, content |-> cited_answer(resp)]

\* logic.generate_grounded_answer: what one response leads to
grounded_answer_of(resp) ==
    IF ~resp.candidates THEN [raised |-> FALSE, content |-> raw_text(resp)]
    ELSE IF ~resp.metadata THEN [raised |-> FALSE, content |-> raw_text(resp)]
    ELSE IF ~resp.supports THEN [raised |-> FALSE, content |-> raw_text(resp)]
    ELSE IF ~resp.parts THEN [raised |-> FALSE, content |-> raw_text(resp)]
    ELSE [raised |-> FALSE, content |-> cited_answer(resp)]

\* generate_rag_answer with "except Exception" in place of "except
\* ResourceExhausted": every exception of the provider is retried
generate_rag_answer_retry_all(n, outcome) ==
    IF n >= max_retries
    THEN [step |-> "return", content |-> Fixed(UnexpectedMessage), called |-> FALSE]
    ELSE IF outcome.kind \in {"ResourceExhausted", "Exception"}
    THEN IF n + 1 = max_retries
         THEN [step |-> "return", content |-> Fixed(BusyMessage), called |-> TRUE]
         ELSE [step |-> "retry", delay |-> base_delay * (2 ^ n), called |-> TRUE]
    ELSE LET a == rag_answer_of(outcome)
         IN  IF a.raised
             THEN [step |-> "raise", exc |-> a.exc, called |-> TRUE]
             ELSE [step |-> "return", content |-> a.content, called |-> TRUE]

\* generate_rag_answer sleeping base_delay * 2 ** (attempt + 1)
generate_rag_answer_late_backoff(n, outcome) ==
    IF n >= max_retries
    THEN [step |-> "return", content |-> Fixed(UnexpectedMessage), called |-> FALSE]
    ELSE CASE outcome.kind = "ResourceExhausted" ->
                IF n + 1 = max_retries
                THEN [step |-> "return", content |-> Fixed(BusyMessage), called |-> TRUE]
                ELSE [step |-> "retry", delay |-> base_delay * (2 ^ (n + 1)),
                      called |-> TRUE]
           [] outcome.kind = "Exception" ->
                [step |-> "raise", exc |-> "Exception", called |-> TRUE]
           [] OTHER ->
                LET a == rag_answer_of(outcome)
                IN  IF a.raised
                    THEN [step |-> "raise", exc |-> a.exc, called |-> TRUE]
                    ELSE [step |-> "return", content |-> a.content, called |-> TRUE]

\* generate_grounded_answer giving up one attempt early: the busy message is
\* returned when attempt + 2 == max_retries
generate_grounded_answer_early_busy(n, outcome) ==
    IF n >= max_retries
    THEN [step |-> "return", content |-> Fixed(UnexpectedMessage), called |-> FALSE]
    ELSE CASE outcome.kind = "ResourceExhausted" ->
                IF n + 2 = max_retries
                THEN [step |-> "return", content |-> Fixed(BusyMessage), called |-> TRUE]
                ELSE [step |-> "retry", delay |-> base_delay * (2 ^ n), called |-> TRUE]
           [] outcome.kind = "Exception" ->
                [step |-> "raise", exc |-> "Exception", called |-> TRUE]
           [] OTHER ->
                LET a == grounded_answer_of(outcome)
                IN  IF a.raised
                    THEN [step |-> "raise", exc |-> a.exc, called |-> TRUE]
                    ELSE [step |-> "return", content |-> a.content, called |-> TRUE]

\* generate_rag_answer without `if attempt + 1 == max_retries`: the third
\* rate-limit error is followed by a wait like the first two
generate_rag_answer_no_busy(n, outcome) ==
    IF n >= max_retries
    THEN [step |-> "return", content |-> Fixed(UnexpectedMessage), called |-> FALSE]
    ELSE CASE outcome.kind = "ResourceExhausted" ->
                [step |-> "retry", delay |-> base_delay * (2 ^ n), called |-> TRUE]
           [] outcome.kind = "Exception" ->
                [step |-> "raise", exc |-> "Exception", called |-> TRUE]
           [] OTHER ->
                LET a == rag_answer_of(outcome)
                IN  IF a.raised
                    THEN [step |-> "raise", exc |-> a.exc, called |-> TRUE]
                    ELSE [step |-> "return", content |-> a.content, called |-> TRUE]

\* nodes.generate_rag_answer (graph.generate_rag_answer is the same text): one
\* pass of the retry loop on loop index n with the provider's outcome.  "step"
\* is "return", "raise" or "retry"; "called" tells whether the provider was
\* called.  With the loop exhausted the statement after the loop returns.
generate_rag_answer(n, outcome) ==
    IF n >= max_retries
    THEN [step |-> "return", content |-> Fixed(UnexpectedMessage), called |-> FALSE]
    ELSE CASE outcome.kind = "ResourceExhausted" ->
                IF n + 1 = max_retries
                THEN [step |-> "return", content |-> Fixed(BusyMessage), called |-> TRUE]
                ELSE [step |-> "retry", delay |-> base_delay * (2 ^ n), called |-> TRUE]
           [] outcome.kind = "Exception" ->
                [step |-> "raise", exc |-> "Exception", called |-> TRUE]
           [] OTHER ->
                LET a == rag_answer_of(outcome)
                IN  IF a.raised
                    THEN [step |-> "raise", exc |-> a.exc, called |-> TRUE]
                    ELSE [step |-> "return", content |-> a.content, called |-> TRUE]

\* logic.generate_grounded_answer: one pass of its retry loop
generate_grounded_answer(n, outcome) ==
    IF n >= max_retries
    THEN [step |-> "return", content |-> Fixed(UnexpectedMessage), called |-> FALSE]
    ELSE CASE outcome.kind = "ResourceExhausted" ->
                IF n + 1 = max_retries
                THEN [step |-> "return", content |-> Fixed(BusyMessage), called |-> TRUE]
                ELSE [step |-> "retry", delay |-> base_delay * (2 ^ n), called |-> TRUE]
           [] outcome.kind = "Exception" ->
                [step |-> "raise", exc |-> "Exception", called |-> TRUE]
           [] OTHER ->
                LET a == grounded_answer_of(outcome)
                IN  IF a.raised
                    THEN [step |-> "raise", exc |-> a.exc, called |-> TRUE]
                    ELSE [step |-> "return", content |-> a.content, called |-> TRUE]

-----------------------------------------------------------------------------
(* The graphs *)

\* graph.py wired with classify as its entry point
GraphEntry_classify == "classify"

\* graph.py wired with an edge from player_search straight to chat_player
GraphEdges_skip_stats ==
    [extract_player |-> "classify", player_search |-> "chat_player",
     player_stats |-> "chat_player", chat_player |-> "END",
     generate_rag_answer |-> "END"]

\* graph.py: entry point and plain edges of "Grounding Chat Graph"
GraphEntry == "extract_player"
GraphEdges ==
    [extract_player |-> "classify", player_search |-> "player_stats",
     player_stats |-> "chat_player", chat_player |-> "END",
     generate_rag_answer |-> "END"]
\* graph.py: targets of the conditional edge after classify
GraphBranches == [rag_path |-> "generate_rag_answer", player_path |-> "player_search"]

\* agent.py: "Minimal Chat Graph"
AgentEntry == "extract_player"
AgentEdges ==
    [extract_player |-> "player_search", player_search |-> "player_stats",
     player_stats |-> "chat", chat |-> "END"]

\* subgraphs.py: the PLAYER_STATS and DOCUMENT_QA subgraphs
SubgraphEdges ==
    [player_search |-> "player_stats", player_stats |-> "answer_player_stats_query",
     answer_player_stats_query |-> "END", generate_rag_answer |-> "END"]

\* the route-based graph: entry point, edge to the guard, targets of the
\* conditional edge keyed by decide_route, and hello's edge
RouteEntry == "route_query"
RouteBranches ==
    [PLAYER_STATS |-> "player_search", DOCUMENT_QA |-> "generate_rag_answer",
     HELLO |-> "hello"]
RouteEdges == [route_query |-> "decide_route", hello |-> "END"]

\* the document tool of the planning agent
ToolEntry == "query_document_knowledge_base"

\* the player tools of the planning agent
SearchToolEntry == "search_for_player"
StatsToolEntry == "get_player_statistics"

Graphs == {"route", "graph", "agent"}
Variants == Graphs \cup {"doc_tool", "search_tool", "stats_tool"}

EntryOf(v) ==
    CASE v = "route" -> RouteEntry
      [] v = "graph" -> GraphEntry
      [] v = "agent" -> AgentEntry
      [] v = "search_tool" -> SearchToolEntry
      [] v = "stats_tool" -> StatsToolEntry
      [] OTHER -> ToolEntry

\* the node that follows `node` by a plain edge
NextNode(v, node) ==
    CASE v = "graph" -> GraphEdges[node]
      [] v = "agent" -> AgentEdges[node]
      [] v = "route" /\ node \in DOMAIN RouteEdges -> RouteEdges[node]
      [] OTHER -> SubgraphEdges[node]

-----------------------------------------------------------------------------
(* The state machine *)

\* a generator that has not been called yet: its loop index, the delays it
\* slept, the calls it issued, and how it ended
TwinStart ==
    [attempt |-> 0, waits |-> <<>>, calls |-> 0, status |-> "running",
     content |-> None, exc |-> None]

\* the other generator makes the pass r of its loop
twin_step(tw, r) ==
    IF tw.status # "running" THEN tw
    ELSE LET called == [tw EXCEPT !.calls = IF r.called THEN @ + 1 ELSE @]
         IN  CASE r.step = "return" ->
                    [called EXCEPT !.status = "returned", !.content = Some(r.content)]
               [] r.step = "raise" ->
                    [called EXCEPT !.status = "raised", !.exc = Some(r.exc)]
               [] OTHER ->
                    [called EXCEPT !.attempt = @ + 1, !.waits = Append(@, r.delay)]

\* no call of VertexRAGClient._build_citations is under way
CitationsIdle ==
    /\ raw_contexts = <<>>
    /\ ctx_index = 0
    /\ citation_map = <<>>
    /\ tagged_snippets = <<>>
    /\ sources = <<>>
    /\ citations = None
    /\ search_output = None

\* no call of VertexRAGClient._retrieve is under way
RetrieveIdle ==
    /\ query_text = None
    /\ retrieve_pc = "idle"
    /\ retrieve_attempt = 0
    /\ last_exc = None
    /\ retrievals = <<>>
    /\ retrieve_waits = <<>>
    /\ retrieved = None

\* the two callers of get_planner_agent
Callers == {1, 2}

\* planner.py as imported and never called
PlannerIdle ==
    /\ PLANNER_CACHE = None
    /\ planner_pc = [c \in Callers |-> "idle"]
    /\ agent = [c \in Callers |-> None]
    /\ constructions = <<>>
    /\ returns = <<>>
    /\ concurrent = FALSE

\* no pipeline and no tool is running
PipelineIdle ==
    /\ variant = "none"
    /\ pc = "END"
    /\ input = <<>>
    /\ tool_arg = None
    /\ messages = <<>>
    /\ classifier_reply = None
    /\ branch = None
    /\ route = None
    /\ do_rag = FALSE
    /\ do_player = FALSE
    /\ extracted_name = None
    /\ extracted_team = None
    /\ player_id = None
    /\ stats = None
    /\ extractor_reply = None
    /\ searched = <<>>
    /\ directory_reply = None
    /\ stats_reply = None
    /\ attempt = 0
    /\ outcomes = <<>>
    /\ waits = <<>>
    /\ queries = <<>>
    /\ twin = TwinStart
    /\ calls = <<>>
    /\ trace = <<>>
    /\ produced = <<>>
    /\ exc = None
    /\ result = None

Init ==
    /\ variant \in Variants
    /\ pc = EntryOf(variant)
    /\ IF variant \in {"search_tool", "stats_tool"}
       THEN input = <<>>
       ELSE \E h \in Histories, q \in Queries : input = h \o <<HumanMessage(q)>>
    /\ tool_arg \in CASE variant = "search_tool" -> {Some(n) : n \in ToolNames}
                      [] variant = "stats_tool" -> {Some(i) : i \in ToolIds}
                      [] OTHER -> {None}
    /\ messages = input
    /\ classifier_reply = None
    /\ branch = None
    /\ route = None
    /\ do_rag = FALSE
    /\ do_player = FALSE
    /\ extracted_name = None
    /\ extracted_team = None
    /\ player_id = None
    /\ stats = None
    /\ extractor_reply = None
    /\ searched = <<>>
    /\ directory_reply = None
    /\ stats_reply = None
    /\ attempt = 0
    /\ outcomes = <<>>
    /\ waits = <<>>
    /\ queries = <<>>
    /\ twin = TwinStart
    /\ calls = <<>>
    /\ trace = <<>>
    /\ produced = <<>>
    /\ exc = None
    /\ result = None
    /\ CitationsIdle
    /\ PlannerIdle
    /\ RetrieveIdle

\* a node returns {"messages": [AIMessage(content)]} and its edge is followed
Answer(content) ==
    /\ messages' = update_messages(messages, <<AIMessage(content)>>)
    /\ produced' = Append(produced, AIMessage(content))
    /\ pc' = NextNode(variant, pc)

\* an exception escapes the node: the run ends without reaching END
Raise(e) ==
    /\ pc' = "RAISED"
    /\ exc' = Some(e)

\* nodes.route_query_node
RouteQuery ==
    /\ pc = "route_query"
    /\ \E r \in RouterReplies :
        LET out == route_query_node(r)
        IN  /\ classifier_reply' = Some(r)
            /\ route' = Some(out.route)
            /\ extracted_name' = out.extracted_name
            /\ extracted_team' = out.extracted_team
    /\ calls' = Append(calls, "llm:route")
    /\ trace' = Append(trace, pc)
    /\ pc' = NextNode(variant, pc)
    /\ UNCHANGED <<libVars, variant, input, tool_arg, branch, messages, do_rag,
                   do_player, player_id, stats, replies, genVars, produced, exc,
                   result>>

\* the conditional edge after route_query, keyed by nodes.decide_route
DecideRoute ==
    /\ pc = "decide_route"
    /\ LET label == decide_route(route)
       IN  /\ branch' = Some(label)
           /\ IF label \in DOMAIN RouteBranches
              THEN pc' = RouteBranches[label] /\ UNCHANGED exc
              ELSE Raise("KeyError")
    /\ UNCHANGED <<libVars, variant, input, tool_arg, classifier_reply,
                   messages, stateKeys, replies, genVars, calls, trace,
                   produced, result>>

\* nodes.hello_node
Hello ==
    /\ pc = "hello"
    /\ trace' = Append(trace, pc)
    /\ Answer(Fixed(HelloMessage))
    /\ UNCHANGED <<libVars, variant, input, tool_arg, classifier_reply, branch,
                   stateKeys, replies, genVars, calls, exc, result>>

\* graph.extract_player_node, agent.extract_player_node
ExtractPlayer ==
    /\ pc = "extract_player"
    /\ calls' = Append(calls, "llm:extract")
    /\ trace' = Append(trace, pc)
    /\ \E r \in ExtractorReplies :
        LET out == extract_player_node(r)
        IN  /\ extractor_reply' = Some(r)
            /\ IF out.raised
               THEN /\ Raise(out.exc)
                    /\ UNCHANGED <<extracted_name, extracted_team>>
               ELSE /\ extracted_name' = out.extracted_name
                    /\ extracted_team' = out.extracted_team
                    /\ pc' = NextNode(variant, pc)
                    /\ UNCHANGED exc
    /\ UNCHANGED <<libVars, variant, input, tool_arg, classifier_reply, branch,
                   messages, route, do_rag, do_player, player_id, stats,
                   searched, directory_reply, stats_reply, genVars, produced,
                   result>>

\* graph.classify_node
Classify ==
    /\ pc = "classify"
    /\ calls' = Append(calls, "llm:classify")
    /\ trace' = Append(trace, pc)
    /\ \E r \in ClassifierReplies :
        LET out == classify_node(r)
        IN  /\ classifier_reply' = Some(r)
            /\ do_player' = out.do_player
            /\ do_rag' = out.do_rag
    /\ pc' = "route_after_classification"
    /\ UNCHANGED <<libVars, variant, input, tool_arg, branch, messages, route,
                   extracted_name, extracted_team, player_id, stats, replies,
                   genVars, produced, exc, result>>

\* the conditional edge after classify, keyed by graph.route_after_classification
RouteAfterClassification ==
    /\ pc = "route_after_classification"
    /\ LET label == route_after_classification(do_rag, do_player)
       IN  /\ branch' = Some(label)
           /\ IF label \in DOMAIN GraphBranches
              THEN pc' = GraphBranches[label] /\ UNCHANGED exc
              ELSE \* END is no key of the path map: depending on the LangGraph
                   \* release the run ends there or the label is rejected
                   \/ pc' = "END" /\ UNCHANGED exc
                   \/ Raise("KeyError")
    /\ UNCHANGED <<libVars, variant, input, tool_arg, classifier_reply,
                   messages, stateKeys, replies, genVars, calls, trace,
                   produced, result>>

\* player_search_node of nodes.py, graph.py (which first tests do_player) and
\* agent.py
PlayerSearch ==
    /\ pc = "player_search"
    /\ trace' = Append(trace, pc)
    /\ IF variant = "graph" /\ ~do_player
       THEN UNCHANGED <<player_id, searched, directory_reply, calls>>
       ELSE /\ \E r \in DirectoryReplies :
                 /\ directory_reply' = Some(r)
                 /\ player_id' = player_search_node(extracted_name,
                                                    last_query(messages), r)
            /\ searched' = Append(searched, search_term(extracted_name,
                                                        last_query(messages)))
            /\ calls' = Append(calls, "directory")
    /\ pc' = NextNode(variant, pc)
    /\ UNCHANGED <<libVars, variant, input, tool_arg, classifier_reply, branch,
                   messages, route, do_rag, do_player, extracted_name,
                   extracted_team, stats, extractor_reply, stats_reply, genVars,
                   produced, exc, result>>

\* player_stats_node of nodes.py, graph.py (which first tests do_player) and
\* agent.py
PlayerStats ==
    /\ pc = "player_stats"
    /\ trace' = Append(trace, pc)
    /\ IF (variant = "graph" /\ ~do_player) \/ no_player_id(player_id)
       THEN /\ stats' = None
            /\ UNCHANGED <<stats_reply, calls>>
       ELSE /\ \E r \in StatsReplies :
                 /\ stats_reply' = Some(r)
                 /\ stats' = Some(get_player_stats(player_id[1], r))
            /\ calls' = Append(calls, "stats")
    /\ pc' = NextNode(variant, pc)
    /\ UNCHANGED <<libVars, variant, input, tool_arg, classifier_reply, branch,
                   messages, route, do_rag, do_player, extracted_name,
                   extracted_team, player_id, extractor_reply, searched,
                   directory_reply, genVars, produced, exc, result>>

\* nodes.chat_player, graph.chat_player and agent.chat
ChatPlayer ==
    /\ pc \in {"chat_player", "answer_player_stats_query", "chat"}
    /\ trace' = Append(trace, pc)
    /\ calls' = Append(calls, "llm:answer")
    /\ LET q == last_query(messages)
           prompt == IF variant = "agent" THEN chat_prompt(q, stats)
                     ELSE chat_player_prompt(q, stats)
       IN  \E r \in AnswerReplies :
              IF r = "raise"
              THEN /\ Raise("Exception")
                   /\ UNCHANGED <<messages, produced>>
              ELSE /\ Answer([kind |-> "llm", prompt |-> prompt])
                   /\ UNCHANGED exc
    /\ UNCHANGED <<libVars, variant, input, tool_arg, classifier_reply, branch,
                   stateKeys, replies, genVars, result>>

\* nodes.generate_rag_answer, graph.generate_rag_answer: one pass of the loop
GenerateRagAnswer ==
    /\ pc = "generate_rag_answer"
    /\ trace' = IF attempt = 0 THEN Append(trace, pc) ELSE trace
    /\ \E outcome \in GroundedOutcomes :
        LET r == generate_rag_answer(attempt, outcome)
        IN  /\ twin' = twin_step(twin, generate_grounded_answer(twin.attempt, outcome))
            /\ outcomes' = IF r.called THEN Append(outcomes, outcome) ELSE outcomes
            /\ queries' = IF r.called THEN Append(queries, grounded_query(messages))
                                      ELSE queries
            /\ calls' = IF r.called THEN Append(calls, "grounded") ELSE calls
            /\ CASE r.step = "return" ->
                      /\ Answer(r.content)
                      /\ UNCHANGED <<attempt, waits, exc>>
                 [] r.step = "raise" ->
                      /\ Raise(r.exc)
                      /\ UNCHANGED <<attempt, waits, messages, produced>>
                 [] OTHER ->
                      /\ waits' = Append(waits, r.delay)
                      /\ attempt' = attempt + 1
                      /\ UNCHANGED <<pc, messages, produced, exc>>
    /\ UNCHANGED <<libVars, variant, input, tool_arg, classifier_reply, branch,
                   stateKeys, replies, result>>

\* agent_tools.query_document_knowledge_base calling
\* logic.generate_grounded_answer: one pass of the loop
QueryDocumentKnowledgeBase ==
    /\ pc = "query_document_knowledge_base"
    /\ trace' = IF attempt = 0 THEN Append(trace, pc) ELSE trace
    /\ \E outcome \in GroundedOutcomes :
        LET r == generate_grounded_answer(attempt, outcome)
        IN  /\ twin' = twin_step(twin, generate_rag_answer(twin.attempt, outcome))
            /\ outcomes' = IF r.called THEN Append(outcomes, outcome) ELSE outcomes
            /\ queries' = IF r.called THEN Append(queries, grounded_query(messages))
                                      ELSE queries
            /\ calls' = IF r.called THEN Append(calls, "grounded") ELSE calls
            /\ CASE r.step = "return" ->
                      /\ result' = Some(r.content)
                      /\ pc' = "END"
                      /\ UNCHANGED <<attempt, waits, exc>>
                 [] r.step = "raise" ->
                      /\ Raise(r.exc)
                      /\ UNCHANGED <<attempt, waits, result>>
                 [] OTHER ->
                      /\ waits' = Append(waits, r.delay)
                      /\ attempt' = attempt + 1
                      /\ UNCHANGED <<pc, exc, result>>
    /\ UNCHANGED <<libVars, variant, input, tool_arg, classifier_reply, branch,
                   messages, stateKeys, replies, produced>>

\* agent_tools.search_for_player calling logic.find_player_id
SearchForPlayer ==
    /\ pc = "search_for_player"
    /\ trace' = Append(trace, pc)
    /\ calls' = Append(calls, "directory")
    /\ searched' = Append(searched, tool_arg[1])
    /\ \E r \in DirectoryReplies :
        LET out == find_player_id(tool_arg[1], r)
        IN  /\ directory_reply' = Some(r)
            /\ IF out.raised
               THEN Raise(out.exc) /\ UNCHANGED result
               ELSE /\ result' = Some(search_for_player(out.pid))
                    /\ pc' = "END"
                    /\ UNCHANGED exc
    /\ UNCHANGED <<libVars, variant, input, tool_arg, classifier_reply, branch,
                   messages, stateKeys, extractor_reply, stats_reply, genVars,
                   produced>>

\* agent_tools.get_player_statistics calling logic.fetch_player_stats
GetPlayerStatistics ==
    /\ pc = "get_player_statistics"
    /\ trace' = Append(trace, pc)
    /\ calls' = Append(calls, "stats")
    /\ \E r \in StatsReplies :
        /\ stats_reply' = Some(r)
        /\ result' = Some(get_player_statistics(fetch_player_stats(tool_arg[1], r)))
    /\ pc' = "END"
    /\ UNCHANGED <<libVars, variant, input, tool_arg, classifier_reply, branch,
                   messages, stateKeys, extractor_reply, searched,
                   directory_reply, genVars, produced, exc>>

Next ==
    \/ RouteQuery
    \/ DecideRoute
    \/ Hello
    \/ ExtractPlayer
    \/ Classify
    \/ RouteAfterClassification
    \/ PlayerSearch
    \/ PlayerStats
    \/ ChatPlayer
    \/ GenerateRagAnswer
    \/ QueryDocumentKnowledgeBase
    \/ SearchForPlayer
    \/ GetPlayerStatistics

Spec == Init /\ [][Next]_vars

\* every node that is ready runs: the graph runner never abandons a request
FairSpec == Spec /\ WF_vars(Next)

-----------------------------------------------------------------------------
(* decide_route on an arbitrary state: the route-based graph entered at its  *)
(* conditional edge with any value under the "route" key                     *)

GuardRoutes == {None} \cup {Some(l) : l \in RouteLabels \cup {"bogus"}}

InitGuard ==
    /\ variant = "route"
    /\ \E h \in Histories, q \in Queries : input = h \o <<HumanMessage(q)>>
    /\ tool_arg = None
    /\ messages = input
    /\ pc = "decide_route"
    /\ classifier_reply = None
    /\ branch = None
    /\ route \in GuardRoutes
    /\ do_rag = FALSE
    /\ do_player = FALSE
    /\ extracted_name \in NameValues
    /\ extracted_team = None
    /\ player_id = None
    /\ stats = None
    /\ extractor_reply = None
    /\ searched = <<>>
    /\ directory_reply = None
    /\ stats_reply = None
    /\ attempt = 0
    /\ outcomes = <<>>
    /\ waits = <<>>
    /\ queries = <<>>
    /\ twin = TwinStart
    /\ calls = <<"llm:route">>
    /\ trace = <<"route_query">>
    /\ produced = <<>>
    /\ exc = None
    /\ result = None
    /\ CitationsIdle
    /\ PlannerIdle
    /\ RetrieveIdle

NextGuard ==
    \/ DecideRoute
    \/ Hello
    \/ PlayerSearch
    \/ PlayerStats
    \/ ChatPlayer
    \/ GenerateRagAnswer

SpecGuard == InitGuard /\ [][NextGuard]_vars

-----------------------------------------------------------------------------
(* Properties *)

ClosedRoutes == {"PLAYER_STATS", "DOCUMENT_QA", "HELLO"}
AnswerNodes == {"chat_player", "answer_player_stats_query", "chat"}
PlayerNodes == {"player_search", "player_stats"} \cup AnswerNodes

IsPrefix(p, q) == Len(p) <= Len(q) /\ SubSeq(q, 1, Len(p)) = p

\* the classifier has replied
Classified == classifier_reply # None

\* the number of grounded-generation calls issued
GroundedCalls == Len(SelectSeq(calls, LAMBDA c : c = "grounded"))

\* C1: when the pipeline reaches END exactly one assistant message has been
\* produced, in the conditional graph of graph.py and in the route-based graph.
C1_ExactlyOneMessageAtEnd ==
    (variant \in {"route", "graph"} /\ pc = "END") => Len(produced) = 1

\* C2: decide_route returns a member of {PLAYER_STATS, DOCUMENT_QA, HELLO} for
\* every value of the "route" key, a missing key included: the route itself
\* when it is in that set, HELLO otherwise.
C2_DecideRouteClosedSet ==
    branch # None =>
        /\ branch[1] \in ClosedRoutes
        /\ (route # None /\ route[1] \in ClosedRoutes) => branch[1] = route[1]
        /\ (route = None \/ route[1] \notin ClosedRoutes) => branch[1] = "HELLO"

\* C2 witness: the guard met MULTI_DOMAIN and fell back to HELLO
C2_Witness ==
    /\ route = Some("MULTI_DOMAIN")
    /\ branch = Some("HELLO")
    /\ pc = "hello"

\* C3: when the router's model returns a JSON object whose "route" key is
\* missing or outside {PLAYER_STATS, DOCUMENT_QA}, route_query_node writes
\* route HELLO and writes None for both extracted_name and extracted_team.
C3_UnrecognisedRouteBecomesHello ==
    (/\ variant = "route"
     /\ Classified
     /\ classifier_reply[1].kind = "object"
     /\ \/ classifier_reply[1].route = None
        \/ classifier_reply[1].route[1] \notin {"PLAYER_STATS", "DOCUMENT_QA"})
    => /\ route = Some("HELLO")
       /\ extracted_name = None
       /\ extracted_team = None

\* C4: when the router's model output is no JSON, or the call raises, the
\* route is HELLO, no document or player stage is entered, and the answer at
\* END is the fixed HELLO message.
C4_ClassifierFailureReachesHello ==
    (/\ variant = "route"
     /\ Classified
     /\ classifier_reply[1].kind \in {"raise", "text"})
    => /\ route = Some("HELLO")
       /\ \A i \in 1..Len(trace) : trace[i] \in {"route_query", "hello"}
       /\ pc = "END" => produced = <<AIMessage(Fixed(HelloMessage))>>

\* C5: after graph.classify_node exactly one of do_rag and do_player is true
\* for every classifier outcome, parse failures, a missing "category" and a
\* category outside {PLAYER_STATS, DOCUMENT_QA} giving do_rag; the conditional
\* edge never returns END.
C5_ClassifyDefaultsToDocumentQa ==
    (variant = "graph" /\ Classified)
    => /\ do_rag # do_player
       /\ (\/ classifier_reply[1].kind # "object"
           \/ classifier_reply[1].category = None
           \/ classifier_reply[1].category[1] \notin {"PLAYER_STATS", "DOCUMENT_QA"})
          => do_rag
       /\ branch # Some("END")

\* the stage a node belongs to; the entity-extraction node of graph.py counts
\* as part of classification and is left out of the stage sequence
StageOf(node) ==
    CASE node \in {"route_query", "classify"} -> "CLASSIFY"
      [] node = "player_search" -> "PLAYER_SEARCH"
      [] node = "player_stats" -> "PLAYER_STATS"
      [] node \in AnswerNodes -> "PLAYER_ANSWER"
      [] node = "generate_rag_answer" -> "DOCUMENT_ANSWER"
      [] OTHER -> "HELLO"
Stages ==
    LET entered == SelectSeq(trace, LAMBDA n : n # "extract_player")
    IN  [i \in 1..Len(entered) |-> StageOf(entered[i])]
AllowedPaths ==
    { <<"CLASSIFY", "PLAYER_SEARCH", "PLAYER_STATS", "PLAYER_ANSWER">>,
      <<"CLASSIFY", "DOCUMENT_ANSWER">>,
      <<"CLASSIFY", "HELLO">> }

\* every grounded call so far returned a response or raised a rate-limit error
ProviderReturnsOrRateLimits ==
    \A i \in 1..Len(outcomes) : outcomes[i].kind # "Exception"

\* C6: every request reaches END along START -> CLASSIFY -> {PLAYER_SEARCH ->
\* PLAYER_STATS -> PLAYER_ANSWER | DOCUMENT_ANSWER | HELLO} -> END, entering no
\* stage twice, whatever the classifier, the directory and the stats endpoint
\* reply and whenever each grounded call returns or raises a rate-limit error.
\* A run ends at END after a whole path, and no run dies in a stage (runs that
\* end because the extraction or the answer model call itself failed aside).
C6_EveryRequestReachesEnd ==
    (variant \in {"route", "graph"} /\ ProviderReturnsOrRateLimits)
    => /\ \E path \in AllowedPaths : IsPrefix(Stages, path)
       /\ pc = "END" => Stages \in AllowedPaths
       /\ pc = "RAISED" => Last(calls) \in {"llm:extract", "llm:answer"}

\* C7 as stated: in every run classification is the first stage and the first
\* external call, and the routing decision in the state is the one the
\* classifier produced.
C7_ClassificationFirst ==
    variant \in {"route", "graph", "agent"}
    => /\ trace # <<>> => trace[1] \in {"route_query", "classify"}
       /\ calls # <<>> => calls[1] \in {"llm:route", "llm:classify"}

\* the routing keys hold what the classifier's reply determined, and nothing
\* before it replied
DecisionIsClassifiers ==
    /\ ~Classified => (route = None /\ ~do_rag /\ ~do_player)
    /\ (Classified /\ variant = "route")
        => (/\ route = Some(route_query_node(classifier_reply[1]).route)
            /\ ~do_rag /\ ~do_player
            /\ branch # None => branch[1] = route[1])
    /\ (Classified /\ variant = "graph")
        => (/\ do_rag = classify_node(classifier_reply[1]).do_rag
            /\ do_player = classify_node(classifier_reply[1]).do_player
            /\ route = None
            /\ branch # None => branch[1] = route_after_classification(do_rag, do_player))

\* C7 amended: the route-based graph runs classification first, before any
\* external call; graph.py runs exactly one stage before classify, the entity
\* extraction with its one model call; agent.py has no classification and
\* never writes a routing decision; and in every variant no stage after
\* classification writes the decision.
C7_ClassificationOrder ==
    /\ (variant = "route" /\ trace # <<>>)
        => (trace[1] = "route_query" /\ calls[1] = "llm:route")
    /\ (variant = "graph" /\ trace # <<>>)
        => (/\ trace[1] = "extract_player" /\ calls[1] = "llm:extract"
            /\ Len(trace) >= 2 => (trace[2] = "classify" /\ calls[2] = "llm:classify"))
    /\ variant \in {"agent", "doc_tool"} => ~Classified
    /\ DecisionIsClassifiers

\* C7 witness: a run of graph.py took the player path to END after extraction
\* and classification
C7_Witness ==
    /\ variant = "graph"
    /\ pc = "END"
    /\ trace = <<"extract_player", "classify", "player_search", "player_stats",
                 "chat_player">>
    /\ do_player /\ ~do_rag

\* the player-path nodes entered, in order
PlayerTrace == SelectSeq(trace, LAMBDA n : n \in PlayerNodes)
PlayerPath(v) ==
    <<"player_search", "player_stats",
      CASE v = "graph" -> "chat_player"
        [] v = "agent" -> "chat"
        [] OTHER -> "answer_player_stats_query">>

\* C8: on the player path the stages run in the order player_search,
\* player_stats, answer, each once; player_stats follows player_search also
\* when no player was found, and the answer stage follows also without stats.
C8_PlayerPathSequential ==
    variant \in {"route", "graph", "agent"}
    => /\ IsPrefix(PlayerTrace, PlayerPath(variant))
       /\ (trace # <<>> /\ Last(trace) = "player_search") => pc = "player_stats"
       /\ (trace # <<>> /\ Last(trace) = "player_stats") => pc = PlayerPath(variant)[3]
       /\ (pc = "END" /\ PlayerTrace # <<>>) => PlayerTrace = PlayerPath(variant)

\* C8 witness: the search found nobody, the stats are absent, and the run
\* still went through all three stages
C8_Witness ==
    /\ variant = "graph"
    /\ pc = "END"
    /\ player_id = None
    /\ stats = None
    /\ PlayerTrace = PlayerPath("graph")

\* C9, where every grounded call returns a response or raises a rate-limit
\* error: the grounded-answer generator returns a text and never raises.
C9_GeneratorNeverRaises ==
    (/\ outcomes # <<>>
     /\ ProviderReturnsOrRateLimits
     /\ calls # <<>>
     /\ Last(calls) = "grounded")
    => pc # "RAISED"

\* C10: only a rate-limit error leads to another attempt; an exception of
\* another class ends the invocation on its attempt, with no further call and
\* no wait, and escapes instead of becoming a message.
C10_OnlyRateLimitRetried ==
    /\ \A i \in 1..(Len(outcomes) - 1) : outcomes[i].kind = "ResourceExhausted"
    /\ Len(waits) = attempt
    /\ GroundedCalls = Len(outcomes)
    /\ \A i \in 1..Len(outcomes) :
          outcomes[i].kind = "Exception"
          => /\ i = Len(outcomes)
             /\ pc = "RAISED"
             /\ exc = Some("Exception")
             /\ Len(waits) = i - 1
             /\ produced = <<>>
             /\ result = None

\* C10 witness: two rate-limit errors, then an exception of another class on
\* the third attempt, which escapes
C10_Witness ==
    /\ Len(outcomes) = 3
    /\ outcomes[3].kind = "Exception"
    /\ pc = "RAISED"
    /\ waits = <<5, 10>>

\* what the generator handed back: the content of the message it returned
\* in a graph, the returned text in the document tool
GeneratorAnswer ==
    IF variant = "doc_tool" THEN result
    ELSE IF outcomes # <<>> /\ produced # <<>> THEN Some(Last(produced).content)
    ELSE None

\* every grounded call so far raised a rate-limit error
AllRateLimited ==
    \A i \in 1..Len(outcomes) : outcomes[i].kind = "ResourceExhausted"

\* the response carries candidates, grounding metadata with supports, and
\* content parts
WellGrounded(resp) ==
    /\ resp.kind = "response"
    /\ resp.candidates /\ resp.metadata /\ resp.supports /\ resp.parts

\* C11: one invocation of the generator issues at most 3 grounded calls, one
\* per attempt, each with the user's query as it was given; a further attempt
\* is made only after the one before failed with a rate-limit error.
C11_AtMostThreeGroundedCalls ==
    /\ GroundedCalls <= 3
    /\ Len(queries) = GroundedCalls
    /\ Len(outcomes) = GroundedCalls
    /\ Len(outcomes) \in {attempt, attempt + 1}
    /\ pc \in {"generate_rag_answer", "query_document_knowledge_base"}
         => Len(outcomes) = attempt
    /\ \A i \in 1..Len(queries) : queries[i] = last_query(input)
    /\ \A i \in 1..(Len(outcomes) - 1) : outcomes[i].kind = "ResourceExhausted"

\* C11 witness: the document tool made its third and last call, each with the
\* question as asked
C11_Witness ==
    /\ variant = "doc_tool"
    /\ pc = "END"
    /\ GroundedCalls = 3
    /\ queries = <<QAlJo, QAlJo, QAlJo>>

\* C12: the wait after the k-th consecutive rate-limit failure is 5 * 2^(k-1)
\* seconds and precedes the next call; no wait follows the third attempt; a
\* call that is rate-limited twice and then succeeds gives the formatted
\* answer after exactly the waits 5 and 10.
C12_BackoffSchedule ==
    /\ \A k \in 1..Len(waits) :
          /\ waits[k] = 5 * (2 ^ (k - 1))
          /\ outcomes[k].kind = "ResourceExhausted"
    /\ Len(waits) <= 2
    /\ Len(waits) <= Len(outcomes)
    /\ Len(outcomes) <= Len(waits) + 1
    /\ (Len(outcomes) = 3 /\ WellGrounded(outcomes[3]))
         => /\ waits = <<5, 10>>
            /\ pc = "END"
            /\ GeneratorAnswer = Some(cited_answer(outcomes[3]))

\* C12 witness: the graph's document path was rate-limited twice and answered
\* with citations on the third attempt
C12_Witness ==
    /\ variant = "route"
    /\ pc = "END"
    /\ Len(outcomes) = 3
    /\ WellGrounded(outcomes[3])
    /\ waits = <<5, 10>>
    /\ produced = <<AIMessage([kind |-> "cited", sources |-> TRUE])>>

\* C13: three consecutive rate-limit errors give exactly the fixed busy
\* message as the generator's result and no exception escapes; the busy
\* message is given after the third rate-limit failure only.
C13_BusyAfterThirdRateLimit ==
    /\ (Len(outcomes) = 3 /\ AllRateLimited)
         => /\ GeneratorAnswer = Some(Fixed(BusyMessage))
            /\ exc = None
            /\ pc = "END"
    /\ GeneratorAnswer = Some(Fixed(BusyMessage))
         => (Len(outcomes) = 3 /\ AllRateLimited)

\* C13 witness: the document tool returned the busy message after three
\* rate-limit errors
C13_Witness ==
    /\ variant = "doc_tool"
    /\ Len(outcomes) = 3
    /\ AllRateLimited
    /\ result = Some(Fixed(BusyMessage))
    /\ waits = <<5, 10>>

\* C14: a response without candidates, without grounding metadata or without
\* content parts makes the generator return, on that attempt, the provider's
\* raw text or the fixed not-found text: no retry, no wait, no exception, in
\* nodes.generate_rag_answer and in logic.generate_grounded_answer alike.
C14_UngroundedResponseReturnsRawText ==
    (/\ outcomes # <<>>
     /\ Last(outcomes).kind = "response"
     /\ \/ ~Last(outcomes).candidates
        \/ ~Last(outcomes).metadata
        \/ ~Last(outcomes).parts)
    => /\ pc = "END"
       /\ exc = None
       /\ GeneratorAnswer = Some(raw_text(Last(outcomes)))
       /\ Len(waits) = Len(outcomes) - 1

\* the directory search has been made
SearchActed == directory_reply # None

\* the name the resolver searched for
SearchedName ==
    IF variant = "search_tool" THEN tool_arg[1]
    ELSE search_term(extracted_name, last_query(input))

\* the candidate list the resolver chose from
Candidates ==
    LET res == search_player(directory_reply[1], TRUE)
    IN  IF res.error THEN <<>> ELSE res.players

\* what the resolver gave: player_id in a graph, the tool's result otherwise
Resolved ==
    IF variant # "search_tool" THEN player_id
    ELSE IF result # None /\ result[1].kind = "player_id" THEN Some(result[1].id)
    ELSE None

\* the record carries a full name equal to the searched name, case and
\* surrounding whitespace aside
NameEquals(p, name) ==
    p.full_name # None /\ strip(lower(p.full_name[1])) = strip(lower(name))

\* the record carries a full name that contains the searched name, case aside
NameContains(p, name) ==
    p.full_name # None /\ contains(strip(lower(name)), lower(p.full_name[1]))

ExactMatches == {i \in 1..Len(Candidates) : NameEquals(Candidates[i], SearchedName)}
SubstringMatches ==
    {i \in 1..Len(Candidates) : NameContains(Candidates[i], SearchedName)}

\* C15: when the candidate list holds, at any position, a record whose full
\* name equals the searched name (case-insensitively, trimmed), resolution
\* returns the identifier of the first such record, also when a record that
\* only contains the name comes earlier.
C15_ExactMatchWins ==
    (SearchActed /\ ExactMatches # {})
    => Resolved = Some(Candidates[SetMin(ExactMatches)].id)

\* C16: for a non-empty candidate list without an exact match, resolution
\* returns the identifier of the first record whose full name contains the
\* searched name, and of the first record of the list when none contains it;
\* the result is the identifier of a record of the list.
C16_SubstringThenFirst ==
    (SearchActed /\ Candidates # <<>> /\ ExactMatches = {})
    => /\ SubstringMatches # {}
            => Resolved = Some(Candidates[SetMin(SubstringMatches)].id)
       /\ SubstringMatches = {} => Resolved = Some(Candidates[1].id)
       /\ \E i \in 1..Len(Candidates) : Resolved = Some(Candidates[i].id)

\* C17: when the directory search returns no candidate, and when the
\* directory call fails in transport, the resolver gives NotFound (None from
\* find_player_id, player_id None in the graphs, "not_found" from the tool)
\* and raises nothing.
C17_NoCandidatesIsNotFound ==
    (SearchActed /\ (directory_reply[1].kind = "error" \/ Candidates = <<>>))
    => /\ Resolved = None
       /\ variant = "search_tool"
            => (pc = "END" /\ exc = None /\ result = Some([kind |-> "not_found"]))
       /\ variant \in Graphs
            => (/\ player_id = None
                /\ Last(trace) = "player_search" => (pc = "player_stats" /\ exc = None))

\* C17 witness: the tool answered "not_found" after a transport failure
C17_Witness ==
    /\ variant = "search_tool"
    /\ directory_reply = Some([kind |-> "error"])
    /\ result = Some([kind |-> "not_found"])
    /\ pc = "END"

\* C18: with the player identifier missing (None or 0) the stats fetch makes
\* no upstream stats call and yields no populated stats record, in the
\* graphs' player_stats_node and in the tool get_player_statistics.
C18_MissingIdMakesNoStatsCall ==
    /\ (/\ variant \in Graphs
         /\ \E i \in 1..Len(trace) : trace[i] = "player_stats"
         /\ no_player_id(player_id))
        => /\ stats_reply = None
           /\ \A i \in 1..Len(calls) : calls[i] # "stats"
           /\ stats = None
    /\ (variant = "stats_tool" /\ pc = "END" /\ no_player_id(tool_arg))
        => /\ stats_reply = None
           /\ \A i \in 1..Len(calls) : calls[i] # "stats"
           /\ hitting_of(result) = None

\* C19: when the upstream stats call fails or reports no such player, the
\* stats fetch raises nothing and yields a result without hitting-season
\* statistics, and the answer stage composes from the raw question alone.
C19_StatsFailureDegrades ==
    (stats_reply # None /\ stats_reply[1].kind \in {"error", "no_people"})
    => /\ exc # None => Last(calls) = "llm:answer"
       /\ variant = "stats_tool" => (pc = "END" /\ hitting_of(result) = None)
       /\ variant \in Graphs
            => /\ hitting_of(stats) = None
               /\ Last(trace) = "player_stats" => pc = PlayerPath(variant)[3]
               /\ pc = "END"
                    => produced =
                        <<AIMessage([kind |-> "llm",
                                     prompt |-> [kind |-> "raw",
                                                 question |-> last_query(input)]])>>

\* C19 witness: the stats endpoint failed and the graph answered from the
\* question alone
C19_Witness ==
    /\ variant = "route"
    /\ pc = "END"
    /\ stats_reply = Some([kind |-> "error"])
    /\ Last(produced).content.prompt = [kind |-> "raw", question |-> QAlJo]

\* the upstream record has no stat group with a split
NoSplits(groups) == \A i \in 1..Len(groups) : groups[i] = <<>>

\* C20: when the upstream player record has no statistics splits,
\* get_player_stats returns a stats record whose hitting-season metrics are
\* all present and defaulted: avg ".000", ops ".000", home_runs 0, rbi 0.
C20_NoSplitsGivesDefaults ==
    (/\ stats_reply # None
     /\ stats_reply[1].kind = "player"
     /\ NoSplits(stats_reply[1].groups))
    => LET r == IF variant = "stats_tool" THEN result ELSE stats
       IN  /\ r # None
           /\ r[1].tag = "record"
           /\ r[1].hitting_season =
                Some([avg |-> ".000", ops |-> ".000", home_runs |-> 0, rbi |-> 0])

\* the stats fetch's result: State["stats"] in a graph, the tool's result
FetchedStats == IF variant = "stats_tool" THEN result ELSE stats

\* positions of the stat groups that have a split
GroupsWithSplits(groups) == {i \in 1..Len(groups) : groups[i] # <<>>}

\* C21: get_player_stats extracts the first statistics split found: with
\* several stat groups holding splits, the hitting-season metrics are those of
\* the first split of the first such group; later groups and later splits do
\* not change the result.
C21_FirstSplitOfFirstGroup ==
    (/\ stats_reply # None
     /\ stats_reply[1].kind = "player"
     /\ GroupsWithSplits(stats_reply[1].groups) # {})
    => LET groups == stats_reply[1].groups
           first == groups[SetMin(GroupsWithSplits(groups))]
       IN  /\ FetchedStats # None
           /\ FetchedStats[1].tag = "record"
           /\ FetchedStats[1].hitting_season = Some(hitting_season(first[1]))

\* the number of calls of one kind issued so far
CallCount(kind) == Len(SelectSeq(calls, LAMBDA c : c = kind))

\* the prompt the answer composer is to build from a question and the stats
ComposedPrompt(q, st) ==
    IF hitting_of(st) # None
    THEN [kind |-> "stats", avg |-> hitting_of(st)[1].avg,
          hr |-> hitting_of(st)[1].home_runs, ops |-> hitting_of(st)[1].ops,
          rbi |-> hitting_of(st)[1].rbi, question |-> q]
    ELSE [kind |-> "raw", question |-> q]

\* C23: the answer composer invokes the model once per call; with non-empty
\* hitting-season stats the prompt carries AVG, HR, OPS and RBI with the
\* question, otherwise the prompt is the raw question; in nodes.chat_player,
\* logic.generate_player_stats_answer and the stats branch of agent.chat.
C23_ComposerPrompt ==
    (variant \in Graphs /\ pc = "END" /\ Last(trace) \in AnswerNodes)
    => /\ CallCount("llm:answer") = 1
       /\ Last(produced).content.prompt = ComposedPrompt(last_query(input), stats)
       /\ generate_player_stats_answer(last_query(input), stats)
            = ComposedPrompt(last_query(input), stats)

\* C24: a player question whose classifier reply follows the routing prompt's
\* format and examples (route label PLAYER_STATS_PATH, the player's name as
\* entity) is routed via the player path, never via DOCUMENT_QA or HELLO, and
\* its extracted name is kept for the resolver.
C24_PromptLabelRoutesToPlayer ==
    (/\ variant = "route"
     /\ Classified
     /\ classifier_reply[1].kind = "object"
     /\ classifier_reply[1].route = Some("PLAYER_STATS_PATH")
     /\ classifier_reply[1].entities.tag = "object"
     /\ classifier_reply[1].entities.name = Some(AlJo))
    => /\ route = Some("PLAYER_STATS")
       /\ extracted_name = Some(AlJo)
       /\ branch # None => branch = Some("PLAYER_STATS")
       /\ \A i \in 1..Len(trace) : trace[i] \notin {"hello", "generate_rag_answer"}

\* C25: after a completed routing path the state's message sequence is the
\* input sequence followed by exactly one new assistant message.
C25_MessagesAppended ==
    (variant \in Graphs /\ pc = "END" /\ produced # <<>>)
    => /\ Len(produced) = 1
       /\ messages = input \o produced

\* C27: resolution is a function of the searched name and the candidate
\* list, the same in logic.find_player_id and in player_search_node: each
\* implementation's result is what the other gives for that name and list.
C27_ResolutionDeterministic ==
    SearchActed
    => /\ variant \in Graphs
            => player_id = find_player_id(searched[1], directory_reply[1]).pid
       /\ variant = "search_tool"
            => Resolved = player_search_node(tool_arg, <<>>, directory_reply[1])

\* C27 witness: two records match exactly and the graph chose the first
C27_Witness ==
    /\ variant = "graph"
    /\ searched = <<AlJo>>
    /\ directory_reply[1].kind = "people"
    /\ Len(directory_reply[1].people) = 2
    /\ directory_reply[1].people[2].id = 3
    /\ player_id = Some(7)

\* q[a..b] is a capitalised word, white space, a capitalised word, with a
\* word boundary on either side
CapitalisedPair(q, a, b) ==
    /\ \E m \in (a + 1)..b, u \in (a + 3)..b :
          /\ m + 1 < u /\ u < b
          /\ IsUpper(q[a]) /\ \A k \in (a + 1)..m : IsLower(q[k])
          /\ \A k \in (m + 1)..(u - 1) : q[k] = " "
          /\ IsUpper(q[u]) /\ \A k \in (u + 1)..b : IsLower(q[k])
    /\ a > 1 => ~IsWord(q[a - 1])
    /\ b < Len(q) => ~IsWord(q[b + 1])

\* the first capitalised two-word sequence of q, if there is one
FirstPair(q) ==
    LET pairs == {ab \in (1..Len(q)) \X (1..Len(q)) : CapitalisedPair(q, ab[1], ab[2])}
    IN  IF pairs = {} THEN None
        ELSE LET ab == CHOOSE x \in pairs : \A y \in pairs : x[1] <= y[1]
             IN  Some(SubSeq(q, ab[1], ab[2]))

\* the term player_search_node is to search for
ExpectedTerm ==
    LET q == last_query(input)
    IN  IF extracted_name # None /\ extracted_name[1] # <<>> THEN extracted_name[1]
        ELSE IF FirstPair(q) # None THEN FirstPair(q)[1]
        ELSE q

\* C28: player_search_node searches for the extracted name when it is
\* non-empty, otherwise for the first capitalised two-word sequence of the
\* raw query, otherwise for the raw query; for every query and extracted name
\* it completes without raising and issues exactly one directory search.
C28_SearchTerm ==
    (variant \in Graphs /\ \E i \in 1..Len(trace) : trace[i] = "player_search")
    => /\ searched = <<ExpectedTerm>>
       /\ CallCount("directory") = 1
       /\ Last(trace) = "player_search" => (pc = "player_stats" /\ exc = None)

\* C28 witness: with an empty extracted name the node searched for the first
\* capitalised pair of the question
C28_Witness ==
    /\ variant = "agent"
    /\ extracted_name = Some(<<>>)
    /\ last_query(input) = QJoAlJon
    /\ searched = << <<"J", "o", " ", "A", "l">> >>
    /\ pc = "player_stats"

\* C29: for every text the classifier or extractor model returns, non-JSON
\* text and JSON that is no object alike, the stage completes without raising
\* and falls back locally: entities None, fallback route; in
\* nodes.route_query_node, graph.classify_node and both extract_player_node.
C29_MalformedReplyFallsBack ==
    /\ (/\ Classified
         /\ classifier_reply[1].kind \in {"text", "json_value"}
         /\ variant = "route")
        => /\ route \in {Some("HELLO"), Some("DOCUMENT_QA")}
           /\ extracted_name = None /\ extracted_team = None
           /\ Last(trace) = "route_query" => pc = "decide_route"
    /\ (/\ Classified
         /\ classifier_reply[1].kind \in {"text", "json_value"}
         /\ variant = "graph")
        => /\ do_rag /\ ~do_player
           /\ Last(trace) = "classify" => pc = "route_after_classification"
    /\ (extractor_reply # None /\ extractor_reply[1].kind \in {"text", "json_value"})
        => /\ extracted_name = None /\ extracted_team = None
           /\ Last(trace) = "extract_player" => (pc # "RAISED" /\ exc = None)

\* positions of the upstream records whose active flag is true
ActivePeople(people) == {i \in 1..Len(people) : people[i].active = "true"}

\* the position of the k-th active record
NthActive(people, k) ==
    CHOOSE i \in ActivePeople(people) :
        Cardinality({j \in ActivePeople(people) : j <= i}) = k

\* C30: search_player with only_active true returns no record whose upstream
\* active flag is false or absent, keeps the others in upstream order, and
\* reports found equal to the number of returned records.
C30_OnlyActiveInOrder ==
    (SearchActed /\ directory_reply[1].kind = "people")
    => LET people == directory_reply[1].people
           res == search_player(directory_reply[1], TRUE)
       IN  /\ ~res.error
           /\ res.found = Len(res.players)
           /\ Len(res.players) = Cardinality(ActivePeople(people))
           /\ \A k \in 1..Len(res.players) :
                 /\ res.players[k].id = people[NthActive(people, k)].id
                 /\ res.players[k].full_name = people[NthActive(people, k)].fullName

\* C30 witness: the first record has no active flag and the second was chosen
C30_Witness ==
    /\ SearchActed
    /\ directory_reply[1].kind = "people"
    /\ Len(directory_reply[1].people) = 2
    /\ directory_reply[1].people[1].active = "missing"
    /\ Resolved = Some(8)

-----------------------------------------------------------------------------
(* VertexRAGClient._build_citations: tagging the retrieved contexts          *)

\* number of contexts a retrieval hands to _build_citations
MaxContexts == 3

\* source_uri of a context: missing or None, empty, or one of two documents
UriValues == {None, Some(""), Some("a"), Some("b")}

\* text of a context: empty, plain, or padded with blanks
TextValues == {<<>>, <<"x">>, <<" ", "y", " ">>}

Contexts == [source_uri : UriValues, text : TextValues]

ContextLists == UNION {[1..n -> Contexts] : n \in 0..MaxContexts}

\* a dict without keys
EmptyDict == [k \in {} |-> 0]

\* getattr(ctx, "source_uri", None) or ""
uri_of(ctx) == IF ctx.source_uri = None THEN "" ELSE ctx.source_uri[1]

\* len(d)
len(d) == Cardinality(DOMAIN d)

\* the loop body without the test `uri not in citation_map`
build_citations_step_retag(map, snippets, srcs, ctx) ==
    LET uri   == uri_of(ctx)
        map1  == IF uri # "" THEN (uri :> len(map) + 1) @@ map ELSE map
        srcs1 == IF uri # "" THEN Append(srcs, <<map1[uri], uri>>) ELSE srcs
        tag   == IF uri \in DOMAIN map1 THEN map1[uri] ELSE len(map1) + 1
        text  == strip(ctx.text)
    IN  [citation_map |-> map1,
         sources |-> srcs1,
         tagged_snippets |-> IF text # <<>>
                             THEN Append(snippets, <<tag, text>>)
                             ELSE snippets]

\* the body of the loop over raw_contexts; the tag str(n) is kept as n
build_citations_step(map, snippets, srcs, ctx) ==
    LET uri   == uri_of(ctx)
        fresh == uri # "" /\ uri \notin DOMAIN map
        map1  == IF fresh THEN (uri :> len(map) + 1) @@ map ELSE map
        srcs1 == IF fresh THEN Append(srcs, <<map1[uri], uri>>) ELSE srcs
        \* citation_map.get(uri) or str(len(citation_map) + 1)
        tag   == IF uri \in DOMAIN map1 THEN map1[uri] ELSE len(map1) + 1
        text  == strip(ctx.text)
    IN  [citation_map |-> map1,
         sources |-> srcs1,
         tagged_snippets |-> IF text # <<>>
                             THEN Append(snippets, <<tag, text>>)
                             ELSE snippets]

\* _build_citations is called with a list of contexts
InitCitations ==
    /\ PipelineIdle
    /\ PlannerIdle
    /\ RetrieveIdle
    /\ raw_contexts \in ContextLists
    /\ ctx_index = 0
    /\ citation_map = EmptyDict
    /\ tagged_snippets = <<>>
    /\ sources = <<>>
    /\ citations = None
    /\ search_output = None

\* one pass of `for ctx in raw_contexts`
BuildCitationsLoop ==
    /\ variant = "none"
    /\ citations = None
    /\ ctx_index < Len(raw_contexts)
    /\ LET r == build_citations_step(citation_map, tagged_snippets, sources,
                                     raw_contexts[ctx_index + 1])
       IN  /\ citation_map' = r.citation_map
           /\ tagged_snippets' = r.tagged_snippets
           /\ sources' = r.sources
    /\ ctx_index' = ctx_index + 1
    /\ UNCHANGED <<pipelineVars, plannerVars, retrieveVars, raw_contexts, citations,
                   search_output>>

\* `return tagged_snippets, sources`, at once when raw_contexts is empty
BuildCitationsReturn ==
    /\ variant = "none"
    /\ citations = None
    /\ ctx_index = Len(raw_contexts)
    /\ citations' = Some(<<tagged_snippets, sources>>)
    /\ UNCHANGED <<pipelineVars, plannerVars, retrieveVars, raw_contexts, ctx_index,
                   citation_map, tagged_snippets, sources, search_output>>

\* the text search returns when there is no snippet
NoneFoundMessage == "No relevant information found in the RAG corpus."

\* search with the Sources block written whatever the sources list holds
search_output_always_sources(snippets, srcs) ==
    IF snippets = <<>>
    THEN [kind |-> "fixed", message |-> NoneFoundMessage]
    ELSE [kind |-> "lines", snippets |-> snippets, sources_block |-> Some(srcs)]

\* VertexRAGClient.search from the pair _build_citations returned: the
\* "(tag) text" lines, and after them the "Sources:" block if there is one
search_output_of(snippets, srcs) ==
    IF snippets = <<>>
    THEN [kind |-> "fixed", message |-> NoneFoundMessage]
    ELSE [kind |-> "lines", snippets |-> snippets,
          sources_block |-> IF srcs # <<>> THEN Some(srcs) ELSE None]

\* VertexRAGClient.search returns
SearchReturn ==
    /\ variant = "none"
    /\ citations # None
    /\ search_output = None
    /\ search_output' = Some(search_output_of(citations[1][1], citations[1][2]))
    /\ UNCHANGED <<pipelineVars, plannerVars, retrieveVars, raw_contexts, ctx_index,
                   citation_map, tagged_snippets, sources, citations>>

NextCitations ==
    \/ BuildCitationsLoop
    \/ BuildCitationsReturn
    \/ SearchReturn

SpecCitations == InitCitations /\ [][NextCitations]_vars

\* the handled contexts that name a source for the first time
FirstSeen ==
    {i \in 1..ctx_index :
        /\ uri_of(raw_contexts[i]) # ""
        /\ \A j \in 1..(i - 1) : uri_of(raw_contexts[j]) # uri_of(raw_contexts[i])}

\* the position of a first-seen context among the first-seen contexts
Rank(i) == Cardinality({j \in FirstSeen : j <= i})

\* the context that names the source u first
FirstIndex(u) == CHOOSE i \in FirstSeen : uri_of(raw_contexts[i]) = u

\* the handled contexts whose text is not blank
SnippetIndexes == {i \in 1..ctx_index : strip(raw_contexts[i].text) # <<>>}

\* the context the k-th snippet was taken from
SnippetContext(k) ==
    CHOOSE i \in SnippetIndexes : Cardinality({j \in SnippetIndexes : j <= i}) = k

\* C22: each distinct non-empty source URI has exactly one bibliography
\* entry and one tag, the tags are 1..n in the order in which the URIs occur
\* first, and every snippet of a context with that URI carries that tag
C22_OneTagPerSource ==
    /\ Len(sources) = Cardinality(FirstSeen)
    /\ \A i \in FirstSeen : sources[Rank(i)] = <<Rank(i), uri_of(raw_contexts[i])>>
    /\ Len(tagged_snippets) = Cardinality(SnippetIndexes)
    /\ \A k \in 1..Len(tagged_snippets) :
          LET u == uri_of(raw_contexts[SnippetContext(k)])
          IN  u # "" => tagged_snippets[k][1] = Rank(FirstIndex(u))

\* two snippets of one document around a snippet of another have been tagged
C22_Witness ==
    /\ citations # None
    /\ Len(raw_contexts) = 3
    /\ Len(citations[1][1]) = 3
    /\ Len(citations[1][2]) = 2
    /\ uri_of(raw_contexts[1]) = uri_of(raw_contexts[3])

-----------------------------------------------------------------------------
(* planner.get_planner_agent: the lazily built, cached planner agent         *)

\* number of calls of get_planner_agent in one process
MaxPlannerCalls == 3

\* what the try block can meet: the import and create_agent succeed, the
\* import raises ImportError, create_agent raises ImportError itself, or
\* create_agent raises another exception
ConstructionOutcomes == {"ok", "import_error", "factory_import_error", "error"}

ImportErrors == {"import_error", "factory_import_error"}

\* the agent create_agent returns, and an instance of _Stub; `id` tells the
\* objects apart: it is the number of the construction that made the object
Agent(id) == [kind |-> "agent", id |-> id]
Stub(id) == [kind |-> "stub", id |-> id]

\* hasattr(obj, "invoke") and callable(obj.invoke)
has_invoke(obj) == obj.kind \in {"agent", "stub"}

\* the try statement with a handler that swallows every exception
get_planner_agent_stub_always(outcome, id) ==
    IF outcome = "ok"
    THEN [raised |-> FALSE, agent |-> Some(Agent(id))]
    ELSE [raised |-> FALSE, agent |-> Some(Stub(id))]

\* the try statement without the ImportError handler: every exception is
\* re-raised
get_planner_agent_no_stub(outcome, id) ==
    IF outcome = "ok"
    THEN [raised |-> FALSE, agent |-> Some(Agent(id))]
    ELSE [raised |-> TRUE, agent |-> None]

\* the try statement of get_planner_agent: the value of `agent`, or the
\* exception re-raised by `except Exception`
get_planner_agent(outcome, id) ==
    CASE outcome = "ok" -> [raised |-> FALSE, agent |-> Some(Agent(id))]
      [] outcome \in ImportErrors -> [raised |-> FALSE, agent |-> Some(Stub(id))]
      [] OTHER -> [raised |-> TRUE, agent |-> None]

\* the calls begun so far
PlannerCalls == Len(returns) + Cardinality({c \in Callers : planner_pc[c] # "idle"})

\* what a finished call gave: the object it returned or the fact that it
\* raised, and the number of the construction it made (0: none)
Returned(c, obj, built) ==
    [caller |-> c, raised |-> FALSE, value |-> Some(obj), built |-> built]
Raised(c, built) ==
    [caller |-> c, raised |-> TRUE, value |-> None, built |-> built]

InitPlanner ==
    /\ PipelineIdle
    /\ CitationsIdle
    /\ RetrieveIdle
    /\ PLANNER_CACHE = None
    /\ planner_pc = [c \in Callers |-> "idle"]
    /\ agent = [c \in Callers |-> None]
    /\ constructions = <<>>
    /\ returns = <<>>
    /\ concurrent \in BOOLEAN

\* a call begins: `if _PLANNER_CACHE is not None: return _PLANNER_CACHE`
CheckPlannerCache(c) ==
    /\ planner_pc[c] = "idle"
    /\ PlannerCalls < MaxPlannerCalls
    /\ concurrent \/ \A d \in Callers : planner_pc[d] = "idle"
    /\ IF PLANNER_CACHE # None
       THEN /\ returns' = Append(returns, Returned(c, PLANNER_CACHE[1], 0))
            /\ UNCHANGED planner_pc
       ELSE /\ planner_pc' = [planner_pc EXCEPT ![c] = "try"]
            /\ UNCHANGED returns
    /\ UNCHANGED <<pipelineVars, citationVars, retrieveVars, PLANNER_CACHE, agent,
                   constructions, concurrent>>

\* the try statement: import create_agent and call it
CreateAgent(c) ==
    /\ planner_pc[c] = "try"
    /\ \E outcome \in ConstructionOutcomes :
          LET id == Len(constructions) + 1
              r  == get_planner_agent(outcome, id)
          IN  /\ constructions' = Append(constructions, outcome)
              /\ IF r.raised
                 THEN /\ returns' = Append(returns, Raised(c, id))
                      /\ planner_pc' = [planner_pc EXCEPT ![c] = "idle"]
                      /\ UNCHANGED agent
                 ELSE /\ agent' = [agent EXCEPT ![c] = r.agent]
                      /\ planner_pc' = [planner_pc EXCEPT ![c] = "store"]
                      /\ UNCHANGED returns
    /\ UNCHANGED <<pipelineVars, citationVars, retrieveVars, PLANNER_CACHE, concurrent>>

\* `return agent` without the assignment to _PLANNER_CACHE
StorePlannerAgent_uncached(c) ==
    /\ planner_pc[c] = "store"
    /\ returns' = Append(returns, Returned(c, agent[c][1], agent[c][1].id))
    /\ agent' = [agent EXCEPT ![c] = None]
    /\ planner_pc' = [planner_pc EXCEPT ![c] = "idle"]
    /\ UNCHANGED <<pipelineVars, citationVars, retrieveVars, PLANNER_CACHE, constructions,
                   concurrent>>

\* `_PLANNER_CACHE = agent` and `return agent`
StorePlannerAgent(c) ==
    /\ planner_pc[c] = "store"
    /\ PLANNER_CACHE' = agent[c]
    /\ returns' = Append(returns, Returned(c, agent[c][1], agent[c][1].id))
    /\ agent' = [agent EXCEPT ![c] = None]
    /\ planner_pc' = [planner_pc EXCEPT ![c] = "idle"]
    /\ UNCHANGED <<pipelineVars, citationVars, retrieveVars, constructions, concurrent>>

NextPlanner ==
    \/ \E c \in Callers : CheckPlannerCache(c)
    \/ \E c \in Callers : CreateAgent(c)
    \/ \E c \in Callers : StorePlannerAgent(c)

SpecPlanner == InitPlanner /\ [][NextPlanner]_vars

\* the outcome of the construction that made the object
MadeBy(obj) == constructions[obj.id]

-----------------------------------------------------------------------------
(* The "Sources" section of the generators and of VertexRAGClient.search     *)

\* a request served by a pipeline or a tool, or a call of search
InitSources == Init \/ InitCitations

NextSources == Next \/ NextCitations

SpecSources == InitSources /\ [][NextSources]_vars

\* the generator's answer ends with a "Sources" section
HasSourcesSection(content) == content = [kind |-> "cited", sources |-> TRUE]

\* the generator's answer is the cited text, with or without the section
IsCited(content) == \E b \in BOOLEAN : content = [kind |-> "cited", sources |-> b]

\* the generators append the section exactly when the bibliography of the
\* cited response is non-empty; any other answer carries none
GeneratorSources ==
    GeneratorAnswer # None =>
        IF IsCited(GeneratorAnswer[1])
        THEN /\ Last(outcomes).kind = "response"
             /\ HasSourcesSection(GeneratorAnswer[1]) <=> Last(outcomes).bibliography
        ELSE ~HasSourcesSection(GeneratorAnswer[1])

\* the text search returned has a Sources block
HasSourcesBlock ==
    /\ search_output # None
    /\ \E b \in {Some(sources)} :
          search_output[1] = [kind |-> "lines", snippets |-> tagged_snippets,
                              sources_block |-> b]

\* C31 as stated: the generators append the "Sources" section exactly when
\* the bibliography is non-empty, and search writes its Sources block exactly
\* when the sources list is non-empty
C31_SourcesIffAnySource ==
    /\ GeneratorSources
    /\ search_output # None => (HasSourcesBlock <=> sources # <<>>)

\* C31, amended: the generators append the "Sources" section exactly when
\* the bibliography is non-empty; search writes its Sources block exactly
\* when the sources list is non-empty and there is at least one snippet, and
\* returns the fixed text without a block when there is no snippet
C31_SourcesIffSourceAndSnippet ==
    /\ GeneratorSources
    /\ search_output # None =>
          /\ HasSourcesBlock <=> (sources # <<>> /\ tagged_snippets # <<>>)
          /\ tagged_snippets = <<>> =>
                search_output[1] = [kind |-> "fixed", message |-> NoneFoundMessage]

\* search returned two snippets of one document with its Sources block
C31_Witness ==
    /\ HasSourcesBlock
    /\ Len(tagged_snippets) = 2
    /\ Len(sources) = 1

-----------------------------------------------------------------------------
(* Records without a full name                                               *)

\* the candidates without a full name that carry the resolved identifier
ChosenNameless ==
    {i \in 1..Len(Candidates) :
        /\ Candidates[i].full_name = None
        /\ Resolved = Some(Candidates[i].id)}

\* C38: a candidate whose full name is absent is chosen only by the
\* first-record fallback: it is the first record of the list and no record's
\* name equals or contains the searched name
C38_NamelessOnlyByFallback ==
    (SearchActed /\ ChosenNameless # {})
    => /\ ChosenNameless = {1}
       /\ ExactMatches = {}
       /\ SubstringMatches = {}

-----------------------------------------------------------------------------
(* The statement after the retry loop                                        *)

\* C33: the statement after the retry loop is never reached: the loop index
\* stays below max_retries, every pass of the loop calls the provider, and
\* the text "An unexpected error occurred after multiple retries." is never
\* the generator's result
C33_FallthroughUnreachable ==
    /\ attempt < max_retries
    /\ Len(outcomes) \in {attempt, attempt + 1}
    /\ GeneratorAnswer # Some(Fixed(UnexpectedMessage))
    /\ \A i \in 1..Len(produced) : produced[i].content # Fixed(UnexpectedMessage)

\* the graph's generator has left the loop in its third pass, after three
\* rate-limit errors
C33_Witness ==
    /\ variant = "graph"
    /\ attempt = max_retries - 1
    /\ Len(outcomes) = max_retries
    /\ AllRateLimited
    /\ pc = "END"
    /\ GeneratorAnswer # None

-----------------------------------------------------------------------------
(* The two grounded generators side by side                                  *)

\* the generator of this run has been called
GeneratorCalled == outcomes # <<>>

\* what the generator of this run did: its calls and delays, and the answer
\* it returned or the exception it raised
GeneratorRun ==
    [attempt |-> attempt,
     waits   |-> waits,
     calls   |-> Len(outcomes),
     status  |-> CASE pc = "END" -> "returned"
                   [] pc = "RAISED" -> "raised"
                   [] OTHER -> "running",
     content |-> IF pc = "END" THEN GeneratorAnswer ELSE None,
     exc     |-> IF pc = "RAISED" THEN exc ELSE None]

\* C36: on the same provider outcomes nodes.generate_rag_answer and
\* logic.generate_grounded_answer issue the same number of calls, wait the
\* same delays, and return the same answer or raise the same exception
C36_GeneratorsAgree == GeneratorCalled => twin = GeneratorRun

-----------------------------------------------------------------------------
(* The planner cache                                                         *)

\* the calls that returned an object
ReturnedCalls == {k \in 1..Len(returns) : ~returns[k].raised}

\* the constructions that gave an object, the agent or the stub
Built == {i \in 1..Len(constructions) : constructions[i] # "error"}

\* C32: when the calls do not overlap, once a call has returned an object
\* every later call returns that same object without constructing anything:
\* only the last construction can have given an object
C32_CachedAgentIsReused ==
    ~concurrent =>
        /\ \A j \in ReturnedCalls : \A k \in (j + 1)..Len(returns) :
              /\ ~returns[k].raised
              /\ returns[k].value = returns[j].value
              /\ returns[k].built = 0
        /\ \A i \in Built : i = Len(constructions)
        /\ Cardinality(Built) <= 1

\* one call after the other: the first builds the agent, the next two are
\* served from the cache
C32_Witness ==
    /\ ~concurrent
    /\ Len(returns) = 3
    /\ ReturnedCalls = {1, 2, 3}
    /\ returns[1].built = 1
    /\ returns[1].value[1].kind = "agent"
    /\ returns[3].caller # returns[1].caller

\* C34: a call raises exactly when its construction raised something other
\* than ImportError; the cache then stays unset, so that the next call
\* constructs again; the cache holds a stub only if the construction that
\* made it raised ImportError
C34_FailurePropagatesUncached ==
    /\ \A k \in 1..Len(returns) :
          /\ returns[k].raised => constructions[returns[k].built] = "error"
          /\ (~returns[k].raised /\ returns[k].built # 0)
                => constructions[returns[k].built] # "error"
    /\ Built = {} => PLANNER_CACHE = None
    /\ PLANNER_CACHE # None =>
          /\ MadeBy(PLANNER_CACHE[1]) # "error"
          /\ PLANNER_CACHE[1].kind = "stub" <=> MadeBy(PLANNER_CACHE[1]) \in ImportErrors
    /\ \A k \in 1..(Len(returns) - 1) :
          (\A j \in 1..k : returns[j].raised) => returns[k + 1].built # 0

\* two calls have raised and the third has built the agent
C34_Witness ==
    /\ Len(returns) = 3
    /\ returns[1].raised /\ returns[2].raised
    /\ returns[3].built = 3
    /\ PLANNER_CACHE = Some(Agent(3))

\* C35: also when calls overlap the agent is constructed at most once, every
\* caller receives the same instance, and the cache is never written with a
\* second object
C35_ConstructedOnce ==
    /\ Cardinality(Built) <= 1
    /\ \A j, k \in ReturnedCalls : returns[j].value = returns[k].value
    /\ \A k \in ReturnedCalls : PLANNER_CACHE = returns[k].value

-----------------------------------------------------------------------------
(* Snippet tags and the sources list                                         *)

\* C37: in the pair _build_citations returns, the tag of every snippet is
\* the tag the sources list gives to the URI of the snippet's own context,
\* also for contexts whose URI is empty or missing
C37_TagNamesOwnSource ==
    citations # None =>
        \A k \in 1..Len(citations[1][1]) :
            \E j \in 1..Len(citations[1][2]) :
                /\ citations[1][2][j][1] = citations[1][1][k][1]
                /\ citations[1][2][j][2] = uri_of(raw_contexts[SnippetContext(k)])

-----------------------------------------------------------------------------
(* VertexRAGClient._retrieve: the retrieval call and its retries             *)

\* range(3)
retrieve_attempts == 3

\* the factor 1.0 of the sleep, in seconds
retrieve_base_delay == 1

\* the contexts a retrieval result can carry: none at all, or a short list
RetrievedContexts ==
    {None} \cup {Some(l) : l \in {m \in ContextLists : Len(m) <= 1}}

\* what vertex_rag.retrieval_query can meet: a result, ServiceUnavailable, or
\* an exception of another class
RetrievalOutcomes ==
    {[kind |-> "result", contexts |-> c] : c \in RetrievedContexts}
    \cup {[kind |-> "ServiceUnavailable"], [kind |-> "PermissionDenied"]}

\* the exception raised by the n-th call
RetrievalError(outcome, n) == [kind |-> outcome.kind, call |-> n]

\* one pass of the loop with every exception handled like ServiceUnavailable
retrieve_pass_retry_all(n, outcome) ==
    IF outcome.kind = "result"
    THEN [step |-> "return"]
    ELSE [step |-> "sleep", delay |-> retrieve_base_delay * (2 ^ n)]

\* one pass of `for attempt in range(3)` with loop variable n: the result is
\* returned, ServiceUnavailable is followed by a sleep, and any other
\* exception leaves the loop
retrieve_pass(n, outcome) ==
    CASE outcome.kind = "result" -> [step |-> "return"]
      [] outcome.kind = "ServiceUnavailable" ->
            [step |-> "sleep", delay |-> retrieve_base_delay * (2 ^ n)]
      [] OTHER -> [step |-> "break"]

\* _retrieve is called with a query
InitRetrieve ==
    /\ PipelineIdle
    /\ CitationsIdle
    /\ PlannerIdle
    /\ query_text \in {Some(q) : q \in Queries}
    /\ retrieve_pc = "loop"
    /\ retrieve_attempt = 0
    /\ last_exc = None
    /\ retrievals = <<>>
    /\ retrieve_waits = <<>>
    /\ retrieved = None

\* the try statement of one pass: the call of vertex_rag.retrieval_query
RetrievalQuery ==
    /\ retrieve_pc = "loop"
    /\ retrieve_attempt < retrieve_attempts
    /\ \E outcome \in RetrievalOutcomes :
          LET r == retrieve_pass(retrieve_attempt, outcome)
              e == RetrievalError(outcome, Len(retrievals) + 1)
          IN  /\ retrievals' = Append(retrievals, outcome)
              /\ CASE r.step = "return" ->
                        /\ retrieved' = Some([raised |-> FALSE, value |-> Some(outcome)])
                        /\ retrieve_pc' = "done"
                        /\ UNCHANGED last_exc
                   [] r.step = "sleep" ->
                        /\ last_exc' = Some(e)
                        /\ retrieve_pc' = "sleep"
                        /\ UNCHANGED retrieved
                   [] OTHER ->
                        /\ last_exc' = Some(e)
                        /\ retrieve_pc' = "after_loop"
                        /\ UNCHANGED retrieved
    /\ UNCHANGED <<pipelineVars, citationVars, plannerVars, query_text,
                   retrieve_attempt, retrieve_waits>>

\* time.sleep(1.0 * (2**attempt)) in the ServiceUnavailable handler, and the
\* step of the loop
RetrieveSleep ==
    /\ retrieve_pc = "sleep"
    /\ retrieve_waits' = Append(retrieve_waits,
                                retrieve_base_delay * (2 ^ retrieve_attempt))
    /\ retrieve_attempt' = retrieve_attempt + 1
    /\ retrieve_pc' = IF retrieve_attempt + 1 < retrieve_attempts
                      THEN "loop" ELSE "after_loop"
    /\ UNCHANGED <<pipelineVars, citationVars, plannerVars, query_text, last_exc,
                   retrievals, retrieved>>

\* the statements after the loop: `raise last_exc`, or `return None`
RetrieveEnd ==
    /\ retrieve_pc = "after_loop"
    /\ retrieved' = IF last_exc # None
                    THEN Some([raised |-> TRUE, value |-> last_exc])
                    ELSE Some([raised |-> FALSE, value |-> None])
    /\ retrieve_pc' = "done"
    /\ UNCHANGED <<pipelineVars, citationVars, plannerVars, query_text,
                   retrieve_attempt, last_exc, retrievals, retrieve_waits>>

NextRetrieve ==
    \/ RetrievalQuery
    \/ RetrieveSleep
    \/ RetrieveEnd

SpecRetrieve == InitRetrieve /\ [][NextRetrieve]_vars

\* the calls before the last one
EarlierRetrievals == 1..(Len(retrievals) - 1)

C40_WaitsOnlyBetweenAttempts ==
    /\ Len(retrieve_waits) <= 2
    /\ \A i \in 1..Len(retrieve_waits) : retrieve_waits[i] = <<1, 2>>[i]
    /\ retrieved # None => Len(retrieve_waits) = Len(retrievals) - 1

====
